---- MODULE Spec2Model ----
(***************************************************************************)
(* Model of the ingestion core of the repository:                          *)
(*   - the page fetchers konachan.api.get_data and                         *)
(*     wallhaven.api._get_data_for_range (retry loop, backoff, session),   *)
(*   - the chunk store ALL.utils.download_file_in_chunks /                 *)
(*     count_existing_chunks / assemble_chunks,                            *)
(*   - the upload path fs.api.upload_chunk / merge_chunks /                *)
(*     check_file_exists.                                                  *)
(* Each subsystem has its own specification over the shared variable list; *)
(* the variables of the other subsystems stay at their initial values.     *)
(***************************************************************************)
EXTENDS Integers, Sequences, FiniteSets, TLC

(***************************************************************************)
(* Configuration values (ALL/configLoader.py DEFAULT_CONFIG, "download").  *)
(* The retry values are the defaults; the byte sizes are configuration     *)
(* too and are scaled down so that every size class fits in a small        *)
(* payload (threshold = fixed chunk size, as in the defaults).             *)
(***************************************************************************)
MAX_RETRIES == 5
BASE_DELAY == 5
CHUNK_SIZE_SMALL == 8
CHUNK_SIZE_THRESHOLD == 8
CHUNK_COUNT_SMALL == 3
READ_CHUNK_SIZE == 3

\* Bounds of the exploration.
MaxPage == 2
MaxPayload == 10

\* "no value yet" for the returned statistics
NoResult == [success |-> -1, failed |-> -1, total |-> -1]

VARIABLES
  \* ---- page fetcher ----
  site,            \* "konachan" (get_data) or "wallhaven" (_get_data_for_range)
  start_page, end_page, limit,
  fpc,             \* position: "entry", "loop", "after", "paged", "done"
  page_num, retry_count, page_success, success_pages, failed_pages,
  http_client,     \* konachan module global _http_client: 0 = None, n = n-th client
  clients_created, \* number of clients _create_http_client has built
  hist,            \* responses met by the attempts of the current page
  clients_used,    \* client used by each attempt of the current page
  sleeps,          \* backoff sleeps of the current page, in order
  page_failed,     \* times the current page was added to failed_pages
  attempted,       \* page numbers requested at least once
  page_delays,     \* number of 1-second inter-page sleeps
  exhausted,       \* pages whose retry loop ended by exhausting MAX_RETRIES
  fresult          \* returned dict, NoResult before the return

fvars == <<site, start_page, end_page, limit, fpc, page_num, retry_count,
           page_success, success_pages, failed_pages, http_client,
           clients_created, hist, clients_used, sleeps, page_failed,
           attempted, page_delays, exhausted, fresult>>

VARIABLES
  \* ---- chunk store ----
  disk,            \* the filesystem: file name -> content, for existing files
  dl_last,         \* arguments, decisions and return value of the call, when the
                   \* last call was download_file_in_chunks (else NoDownload)
  as_last,         \* arguments and result of the call, when the last call was
                   \* assemble_chunks (else NoAssemble)
  stored           \* (base_dir, file_id) -> payload a successful download stored under the fresh key

cvars == <<disk, dl_last, as_last, stored>>

VARIABLES
  \* ---- upload path ----
  today,           \* datetime.now().strftime('%Y%m%d')
  mdisk,           \* files under FS_MEDIA_ROOT: <<time_str, md5, file name>> -> content
  records,         \* the FileInfo table, in order of creation (id = position)
  m_req,           \* the parameters of the last request
  m_env,           \* what the last request met: outcomes of the steps that can fail
  m_last           \* the JSON response of the last request

mvars == <<today, mdisk, records, m_req, m_env, m_last>>

VARIABLES
  \* ---- cipher ----
  c_plain,         \* the bytes last passed to encrypt_data
  c_token,         \* the text encrypt_data returned (character codes)
  c_back,          \* what decrypt_data returned for c_token
  c_pos,           \* the keystream index where the last encryption stopped
  c_first,         \* an earlier encrypt_data call: its input and its result
  c_segs_in,       \* the segments last encrypted in place by convert_hls_api
  c_segs           \* their contents afterwards

xvars == <<c_plain, c_token, c_back, c_pos, c_first, c_segs_in, c_segs>>

VARIABLES
  \* ---- operations on registered records ----
  tmpfiles,        \* temporary input files of convert_hls_api that exist (by run)
  hls_runs,        \* conversions that got as far as creating a temporary file
  h_out            \* the bytes the last operation assembled from the chunks

hvars == <<tmpfiles, hls_runs, h_out>>

VARIABLES
  \* ---- lookup of a file among the date partitions ----
  d_tree,          \* directories under media_root, as paths <<date, file_id, subdir>>
  d_files,         \* names under media_root that are plain files
  d_now,           \* datetime.now().strftime('%Y%m%d'), as a day number
  d_call,          \* arguments of the last find_file_in_date_dirs call
  d_found          \* what it returned

dvars == <<d_tree, d_files, d_now, d_call, d_found>>

VARIABLES
  \* ---- key derivation ----
  k_secret,        \* settings.SECRET_KEY.encode() of the running call
  k_key,           \* the local variable key
  k_pc,            \* position in get_encryption_key: "idle", "loop", "done"
  k_result         \* the returned key

kvars == <<k_secret, k_key, k_pc, k_result>>

VARIABLES
  \* ---- two concurrent downloads of one (base_dir, file_id) ----
  r_disk,          \* the filesystem they share
  r_pc,            \* per call: "start", "request", "write", "done"
  r_plan,          \* per call: the response it fetched
  r_idx,           \* per call: chunk_index
  r_ret            \* per call: the returned (success, chunk count)

rvars == <<r_disk, r_pc, r_plan, r_idx, r_ret>>

VARIABLES
  \* ---- concurrent merge_chunks requests ----
  q_records,       \* the FileInfo table they share
  q_merged,        \* content hashes whose merged file is on disk
  q_pc,            \* per request: "arrive", "lookup", "assemble", "remove",
                   \* "create", "done"
  q_md5,           \* per request: file_md5
  q_resp           \* per request: the JSON response

qvars == <<q_records, q_merged, q_pc, q_md5, q_resp>>

VARIABLES
  \* ---- konachan download_image ----
  i_status,        \* image.download_status
  i_disk,          \* files under base_dir, the three variant directories
  i_pc,            \* position: "idle", "task", "finish", "done"
  i_outcomes,      \* per download task handled so far, what became of it
  i_success, i_failed,   \* success_count, failed_count
  i_requests,      \* HTTP requests sent by the running call
  i_marked,        \* whether the record was marked when the call began
  i_resp           \* the message of the JSON response

ivars == <<i_status, i_disk, i_pc, i_outcomes, i_success, i_failed,
           i_requests, i_marked, i_resp>>

evars == <<dvars, kvars, rvars, qvars, ivars>>

vars == <<fvars, cvars, mvars, xvars, hvars, evars>>

----------------------------------------------------------------------------
(***************************************************************************)
(* Page fetcher                                                            *)
(***************************************************************************)
Sites == {"konachan", "wallhaven"}

\* What one HTTP attempt can meet.  net: the transport outcome; status: the
\* HTTP status of a received response; body: the kind of body of a 200
\* response; save: whether save_data raises; json_type: whether the
\* Content-Type header names JSON.
NetErrors == {"timeout", "connection", "reqexc"}
ErrorStatuses == {403, 404, 500}
Bodies == {"empty", "badjson", "null", "nodata", "valid"}

Responses ==
  {[net |-> n, status |-> 0, body |-> "none", save |-> "ok", json_type |-> TRUE] :
     n \in NetErrors}
  \cup {[net |-> "ok", status |-> s, body |-> "none", save |-> "ok", json_type |-> TRUE] :
          s \in ErrorStatuses}
  \cup {[net |-> "ok", status |-> 200, body |-> b, save |-> "ok", json_type |-> TRUE] :
          b \in Bodies}
  \cup {[net |-> "ok", status |-> 200, body |-> "valid", save |-> "raise",
          json_type |-> TRUE]}
  \cup {[net |-> "ok", status |-> 200, body |-> b, save |-> "ok", json_type |-> FALSE] :
          b \in {"badjson", "valid"}}

\* An exception as the handlers see it: its class and the status_code of
\* its .response attribute; response_status 0 stands for "no response
\* attached" (getattr(None, 'status_code', None) is None, which is falsy
\* and differs from every status, as 0 does).
Exc(type, status) == [type |-> type, response_status |-> status]
NoExc == Exc("none", 0)

\* (variant: a Content-Type that is not JSON raises like an empty body)
ContentTypeRaises(resp) ==
  IF resp.json_type THEN NoExc ELSE Exc("ValueError", 0)

\* "if 'application/json' not in response_content_type and ...": two
\* logger.warning calls, nothing raised
ContentTypeCheck(resp) == NoExc

\* The statement of the try block that raises for a response: "request",
\* "status", "empty" (the empty-content check), "json" (response.json()),
\* "none" (data is None), "format" (no 'data' key), "save"; "" when
\* save_data returned.
RaisedBy(s, resp) ==
  IF resp.net # "ok" THEN "request"
  ELSE IF resp.status # 200 THEN "status"
  ELSE IF resp.body = "empty" THEN "empty"
  ELSE IF ContentTypeCheck(resp) # NoExc THEN "content_type"
  ELSE IF resp.body = "badjson" THEN "json"
  ELSE IF resp.body = "null" THEN "none"
  ELSE IF s = "wallhaven" /\ resp.body = "nodata" THEN "format"
  ELSE IF resp.save = "raise" THEN "save"
  ELSE ""

\* The body of the try block: the exception it raises for a response, or
\* NoExc when save_data returned.
TryBody(s, resp) ==
  IF resp.net = "timeout" THEN Exc("Timeout", 0)
  ELSE IF resp.net = "connection" THEN Exc("ConnectionError", 0)
  ELSE IF resp.net = "reqexc" THEN Exc("RequestException", 0)
  ELSE IF resp.status # 200
    \* raise requests.HTTPError(f"HTTP {status}: {reason}"): built from a
    \* message only, so the exception carries no response
    THEN Exc("HTTPError", 0)
  ELSE IF resp.body = "empty" THEN Exc("ValueError", 0)
  ELSE IF ContentTypeCheck(resp) # NoExc THEN ContentTypeCheck(resp)
  ELSE IF resp.body = "badjson" THEN Exc("ValueError", 0)
  ELSE IF resp.body = "null" THEN Exc("ValueError", 0)
  ELSE IF s = "wallhaven" /\ resp.body = "nodata" THEN Exc("ValueError", 0)
  ELSE IF resp.save = "raise" THEN Exc("Exception", 0)
  ELSE NoExc

\* 2 ** n
RECURSIVE Pow2(_)
Pow2(n) == IF n = 0 THEN 1 ELSE 2 * Pow2(n - 1)

\* (variant: a linear backoff, BASE_DELAY * retry_count)
DelayLinear(rc) == BASE_DELAY * rc

\* delay = BASE_DELAY * (2 ** (retry_count - 1))
Delay(rc) == BASE_DELAY * Pow2(rc - 1)

\* (variant: the backoff sleep is taken after the last attempt as well)
RetrySleepAlways(rc) ==
  [retry_count |-> rc + 1, slept |-> <<Delay(rc + 1)>>,
   failed |-> 0, brk |-> FALSE, reset |-> FALSE, success |-> FALSE]

\* The retrying handlers: retry_count += 1, then sleep unless exhausted.
Retry(rc) ==
  [retry_count |-> rc + 1,
   slept |-> IF rc + 1 < MAX_RETRIES THEN <<Delay(rc + 1)>> ELSE <<>>,
   failed |-> 0, brk |-> FALSE, reset |-> FALSE, success |-> FALSE]

\* (variant: the loop is left without counting the page)
FailNowUncounted(rc) ==
  [retry_count |-> rc, slept |-> <<>>, failed |-> 0, brk |-> TRUE,
   reset |-> FALSE, success |-> FALSE]

\* failed_pages += 1; break
FailNow(rc) ==
  [retry_count |-> rc, slept |-> <<>>, failed |-> 1, brk |-> TRUE,
   reset |-> FALSE, success |-> FALSE]

\* except requests.HTTPError: status_code = getattr(e.response, 'status_code', None)
HandleHTTPError(s, e, rc) ==
  LET status_code == e.response_status IN
  IF s = "konachan" /\ status_code = 403 THEN
    \* _reset_http_client(); retry_count += 1; sleep and continue, or give up
    IF rc + 1 < MAX_RETRIES
    THEN [retry_count |-> rc + 1, slept |-> <<Delay(rc + 1)>>, failed |-> 0,
          brk |-> FALSE, reset |-> TRUE, success |-> FALSE]
    ELSE [retry_count |-> rc + 1, slept |-> <<>>, failed |-> 1,
          brk |-> TRUE, reset |-> TRUE, success |-> FALSE]
  ELSE IF status_code # 0 /\ status_code >= 500 THEN
    IF rc + 1 < MAX_RETRIES
    THEN [retry_count |-> rc + 1, slept |-> <<Delay(rc + 1)>>, failed |-> 0,
          brk |-> FALSE, reset |-> FALSE, success |-> FALSE]
    ELSE [retry_count |-> rc + 1, slept |-> <<>>, failed |-> 1,
          brk |-> TRUE, reset |-> FALSE, success |-> FALSE]
  ELSE FailNow(rc)

\* The except clauses of the retry loop, in their order.
Handle(s, e, rc) ==
  CASE e.type = "none" ->
         [retry_count |-> rc, slept |-> <<>>, failed |-> 0, brk |-> TRUE,
          reset |-> FALSE, success |-> TRUE]
    [] e.type = "Timeout" -> Retry(rc)
    [] e.type = "ConnectionError" -> Retry(rc)
    [] e.type = "HTTPError" -> HandleHTTPError(s, e, rc)
    [] e.type = "RequestException" -> Retry(rc)
    [] e.type = "ValueError" -> FailNow(rc)
    [] OTHER -> Retry(rc)

\* The fetcher before any call (the state the other specifications keep).
FetchIdle ==
  /\ site = "konachan"
  /\ start_page = 0
  /\ end_page = 0
  /\ limit = 0
  /\ fpc = "idle"
  /\ page_num = 0
  /\ retry_count = 0
  /\ page_success = FALSE
  /\ success_pages = 0
  /\ failed_pages = 0
  /\ http_client = 0
  /\ clients_created = 0
  /\ hist = <<>>
  /\ clients_used = <<>>
  /\ sleeps = <<>>
  /\ page_failed = 0
  /\ attempted = {}
  /\ page_delays = 0
  /\ exhausted = {}
  /\ fresult = NoResult

\* Argument validation of get_data (both sites validate before the loop).
ValidArgs == start_page >= 1 /\ end_page >= 1 /\ limit >= 1 /\ start_page <= end_page

FetchInit ==
  /\ site \in Sites
  /\ start_page \in 0..MaxPage
  /\ end_page \in 0..MaxPage
  /\ limit \in {0, 1}
  /\ fpc = "entry"
  /\ page_num = 0
  /\ retry_count = 0
  /\ page_success = FALSE
  /\ success_pages = 0
  /\ failed_pages = 0
  /\ http_client \in {0, 1}
  /\ clients_created = http_client
  /\ hist = <<>>
  /\ clients_used = <<>>
  /\ sleeps = <<>>
  /\ page_failed = 0
  /\ attempted = {}
  /\ page_delays = 0
  /\ exhausted = {}
  /\ fresult = NoResult

\* Entry of get_data: reject invalid arguments, else start the first page.
FetchEnter ==
  /\ fpc = "entry"
  /\ IF ValidArgs
     THEN /\ fpc' = "loop"
          /\ page_num' = start_page
          /\ fresult' = NoResult
     ELSE /\ fpc' = "done"
          /\ page_num' = page_num
          /\ fresult' = [success |-> 0, failed |-> 0, total |-> 0]
  /\ UNCHANGED <<site, start_page, end_page, limit, retry_count, page_success,
                 success_pages, failed_pages, http_client, clients_created,
                 hist, clients_used, sleeps, page_failed, attempted, page_delays,
                 exhausted>>

\* One iteration of "while retry_count < MAX_RETRIES": obtain the client,
\* send the request, run the matching except clause.
FetchAttempt ==
  /\ fpc = "loop"
  /\ retry_count < MAX_RETRIES
  /\ \E resp \in Responses :
       LET \* client = _get_http_client(): created lazily (konachan only)
           create == site = "konachan" /\ http_client = 0
           client == IF site = "konachan"
                     THEN (IF create THEN clients_created + 1 ELSE http_client)
                     ELSE 0
           h == Handle(site, TryBody(site, resp), retry_count)
       IN /\ hist' = Append(hist, resp)
          /\ clients_used' = Append(clients_used, client)
          /\ attempted' = attempted \cup {page_num}
          /\ clients_created' = IF create THEN clients_created + 1 ELSE clients_created
          /\ http_client' = IF h.reset THEN 0 ELSE client
          /\ retry_count' = h.retry_count
          /\ sleeps' = sleeps \o h.slept
          /\ failed_pages' = failed_pages + h.failed
          /\ page_failed' = page_failed + h.failed
          /\ page_success' = h.success
          /\ success_pages' = IF h.success THEN success_pages + 1 ELSE success_pages
          /\ fpc' = IF h.brk \/ h.retry_count >= MAX_RETRIES THEN "after" ELSE "loop"
  /\ UNCHANGED <<site, start_page, end_page, limit, page_num, page_delays,
                 exhausted, fresult>>

\* (variant: the post-loop check without the retry_count condition)
ExhaustedAnyFailure == IF ~page_success THEN 1 ELSE 0

\* (variant: the post-loop check with ">" in place of ">=")
ExhaustedOffByOne == IF ~page_success /\ retry_count > MAX_RETRIES THEN 1 ELSE 0

\* After the loop: "if not page_success and retry_count >= MAX_RETRIES: failed_pages += 1"
Exhausted == IF ~page_success /\ retry_count >= MAX_RETRIES THEN 1 ELSE 0

\* The accounting that follows the retry loop of a page.
FetchAccount ==
  /\ fpc = "after"
  /\ failed_pages' = failed_pages + Exhausted
  /\ page_failed' = page_failed + Exhausted
  /\ exhausted' = IF Exhausted = 1 THEN exhausted \cup {page_num} ELSE exhausted
  /\ fpc' = "paged"
  /\ UNCHANGED <<site, start_page, end_page, limit, page_num, retry_count,
                 page_success, success_pages, http_client, clients_created,
                 hist, clients_used, sleeps, attempted, page_delays, fresult>>

\* "if page_num < end_page: time.sleep(1)", then the next page of the range.
FetchNextPage ==
  /\ fpc = "paged"
  /\ page_num < end_page
  /\ page_delays' = page_delays + 1
  /\ page_num' = page_num + 1
  /\ retry_count' = 0
  /\ page_success' = FALSE
  /\ hist' = <<>>
  /\ clients_used' = <<>>
  /\ sleeps' = <<>>
  /\ page_failed' = 0
  /\ fpc' = "loop"
  /\ UNCHANGED <<site, start_page, end_page, limit, success_pages, failed_pages,
                 http_client, clients_created, attempted, exhausted, fresult>>

\* After the last page: return the statistics.
FetchReturn ==
  /\ fpc = "paged"
  /\ page_num >= end_page
  /\ fresult' = [success |-> success_pages,
                 failed |-> failed_pages,
                 total |-> end_page - start_page + 1]
  /\ fpc' = "done"
  /\ UNCHANGED <<site, start_page, end_page, limit, page_num, retry_count,
                 page_success, success_pages, failed_pages, http_client,
                 clients_created, hist, clients_used, sleeps, page_failed,
                 attempted, page_delays, exhausted>>

FetchNext ==
  \/ FetchEnter /\ UNCHANGED <<cvars, mvars, xvars, hvars, evars>>
  \/ FetchAttempt /\ UNCHANGED <<cvars, mvars, xvars, hvars, evars>>
  \/ FetchAccount /\ UNCHANGED <<cvars, mvars, xvars, hvars, evars>>
  \/ FetchNextPage /\ UNCHANGED <<cvars, mvars, xvars, hvars, evars>>
  \/ FetchReturn /\ UNCHANGED <<cvars, mvars, xvars, hvars, evars>>


----------------------------------------------------------------------------
(***************************************************************************)
(* Chunk store: download_file_in_chunks, count_existing_chunks,            *)
(* assemble_chunks                                                         *)
(***************************************************************************)
Dirs == {"d1"}
FileIds == {"f1"}

\* The bytes served for a URL: n bytes, all distinct, so that loss,
\* duplication and reordering of bytes are all visible (the code never
\* looks at the value of a byte).
Payload(n) == [i \in 1..n |-> i]

\* {base_dir}/{file_id}.part{N}, {base_dir}/{file_id}.ext, {base_dir}/{file_id}
PartName(d, f, n) == <<d, f, "part", n>>
ExtName(d, f) == <<d, f, "ext", 0>>
LegacyName(d, f) == <<d, f, "name", 0>>
\* the directory base_dir itself
DirName(d, f) == <<d, f, "dir", 0>>

Exists(fs, name) == name \in DOMAIN fs
WriteFile(fs, name, content) ==
  [x \in DOMAIN fs \cup {name} |-> IF x = name THEN content ELSE fs[x]]

\* "no file of this chunk set is on disk"
Fresh(fs, d, f) ==
  ~\E name \in DOMAIN fs : name[1] = d /\ name[2] = f /\ name[3] # "dir"

\* base_dir.mkdir(parents=True, exist_ok=True)
MakeDir(fs, d, f) ==
  IF Exists(fs, DirName(d, f)) THEN fs ELSE WriteFile(fs, DirName(d, f), <<>>)

RECURSIVE CountFrom(_, _, _, _)
CountFrom(fs, d, f, n) ==
  IF Exists(fs, PartName(d, f, n)) THEN CountFrom(fs, d, f, n + 1) ELSE n

\* count_existing_chunks: probe part0, part1, ... until one is missing
count_existing_chunks(fs, d, f) == CountFrom(fs, d, f, 0)

\* math.ceil(a / b) for a >= 0, b > 0
Ceil(a, b) == (a + b - 1) \div b

\* (variant: the boundary test with "<=" in place of "<")
ChunkPolicyInclusive(file_size) ==
  IF file_size.known /\ file_size.value # 0 /\ file_size.value <= CHUNK_SIZE_THRESHOLD
  THEN [policy |-> "split", chunk_size |-> Ceil(file_size.value, CHUNK_COUNT_SMALL)]
  ELSE [policy |-> "fixed", chunk_size |-> CHUNK_SIZE_SMALL]

\* "if file_size and file_size < CHUNK_SIZE_THRESHOLD": file_size is None
\* (known = FALSE) without a Content-Length header; None and 0 are falsy.
ChunkPolicy(file_size) ==
  IF file_size.known /\ file_size.value # 0 /\ file_size.value < CHUNK_SIZE_THRESHOLD
  THEN [policy |-> "split", chunk_size |-> Ceil(file_size.value, CHUNK_COUNT_SMALL)]
  ELSE [policy |-> "fixed", chunk_size |-> CHUNK_SIZE_SMALL]

\* response.iter_content(chunk_size=READ_CHUNK_SIZE): the body in pieces
RECURSIVE IterContent(_)
IterContent(data) ==
  IF Len(data) = 0 THEN <<>>
  ELSE IF Len(data) <= READ_CHUNK_SIZE THEN <<data>>
  ELSE <<SubSeq(data, 1, READ_CHUNK_SIZE)>>
         \o IterContent(SubSeq(data, READ_CHUNK_SIZE + 1, Len(data)))

\* "while len(current_chunk_data) >= chunk_size": write full chunks.
\* st = [fs, chunk_index, buf]
RECURSIVE FlushFull(_, _, _, _)
FlushFull(st, d, f, c) ==
  IF Len(st.buf) >= c
  THEN FlushFull([fs |-> WriteFile(st.fs, PartName(d, f, st.chunk_index), SubSeq(st.buf, 1, c)),
                  chunk_index |-> st.chunk_index + 1,
                  buf |-> SubSeq(st.buf, c + 1, Len(st.buf))], d, f, c)
  ELSE st

\* the for loop over the first k pieces of the stream
RECURSIVE ConsumePieces(_, _, _, _, _, _)
ConsumePieces(st, pieces, k, d, f, c) ==
  IF k = 0 THEN st
  ELSE LET prev == ConsumePieces(st, pieces, k - 1, d, f, c)
           piece == pieces[k]
       IN IF Len(piece) > 0
          THEN FlushFull([prev EXCEPT !.buf = prev.buf \o piece], d, f, c)
          ELSE prev

\* (variant: the rest of the buffer is written also when it is empty)
FlushLastAlways(st, d, f) ==
  [fs |-> WriteFile(st.fs, PartName(d, f, st.chunk_index), st.buf),
   chunk_index |-> st.chunk_index + 1,
   buf |-> <<>>]

\* "if current_chunk_data:" write the last, partial chunk
FlushLast(st, d, f) ==
  IF Len(st.buf) > 0
  THEN [fs |-> WriteFile(st.fs, PartName(d, f, st.chunk_index), st.buf),
        chunk_index |-> st.chunk_index + 1,
        buf |-> <<>>]
  ELSE st

\* "if not file_ext: file_ext = os.path.splitext(url)[1] or '.jpg'"
ResolveExt(file_ext, url_ext) ==
  IF file_ext # "" THEN file_ext ELSE IF url_ext # "" THEN url_ext ELSE ".jpg"

\* What a download call can meet: fail = "none"; "request" (requests.get or
\* raise_for_status raises); "stream" (the body breaks after `after` pieces
\* were read, or the write that follows them fails); "ext" (writing the
\* sidecar fails).  has_length: whether a Content-Length header is sent.
Served ==
  {[size |-> n, has_length |-> h, fail |-> x, after |-> 0] :
     n \in 0..MaxPayload, h \in BOOLEAN, x \in {"none", "request", "ext"}}
  \cup
  {srv \in [size : 0..MaxPayload, has_length : BOOLEAN, fail : {"stream"},
            after : 0..MaxPayload] :
     srv.after <= Len(IterContent(Payload(srv.size)))}

\* (variant: the existence check probing part1 instead of part0)
first_chunk_exists_part1(fs, d, f) == Exists(fs, PartName(d, f, 1))

\* first_chunk_path = base_dir / f"{file_id}.part0"; first_chunk_path.exists()
first_chunk_exists(fs, d, f) == Exists(fs, PartName(d, f, 0))

\* (file_ext argument, extension of the URL); "" = not given / none
ExtArgs == {<<"", "">>, <<"", ".gif">>, <<".png", ".gif">>}

NoDownload ==
  [dir |-> "", fid |-> "", requested |-> FALSE, ok |-> FALSE, count |-> 0,
   policy |-> "none", chunk_size |-> 0, size |-> 0, has_length |-> FALSE]

NoAssemble ==
  [dir |-> "", fid |-> "", date_dirs |-> <<>>, ok |-> FALSE, data |-> <<>>, ext |-> ""]

\* download_file_in_chunks(url, base_dir, file_id, file_ext): the new
\* filesystem and the record of what the call did and returned.
download_file_in_chunks(fs0, d, f, file_ext, url_ext, srv) ==
  LET fs == MakeDir(fs0, d, f)
      ext == ResolveExt(file_ext, url_ext)
      call == [NoDownload EXCEPT !.dir = d, !.fid = f]
  IN
  IF first_chunk_exists(fs, d, f) THEN
    \* first chunk present: skip the download, count what is there
    [fs |-> fs,
     last |-> [call EXCEPT !.ok = TRUE, !.count = count_existing_chunks(fs, d, f)]]
  ELSE IF srv.fail = "request" THEN
    \* except requests.RequestException: return False, 0, [error_msg]
    [fs |-> fs, last |-> [call EXCEPT !.requested = TRUE]]
  ELSE
    LET file_size == [known |-> srv.has_length, value |-> srv.size]
        pol == ChunkPolicy(file_size)
        pieces == IterContent(Payload(srv.size))
        st0 == [fs |-> fs, chunk_index |-> 0, buf |-> <<>>]
        got == [call EXCEPT !.requested = TRUE, !.policy = pol.policy,
                            !.chunk_size = pol.chunk_size, !.size = srv.size,
                            !.has_length = srv.has_length]
    IN
    IF srv.fail = "stream" THEN
      \* inner except: return False, chunk_index, error_messages
      LET st == ConsumePieces(st0, pieces, srv.after, d, f, pol.chunk_size)
      IN [fs |-> st.fs, last |-> [got EXCEPT !.count = st.chunk_index]]
    ELSE
      LET st == FlushLast(ConsumePieces(st0, pieces, Len(pieces), d, f, pol.chunk_size), d, f)
      IN IF srv.fail = "ext"
         THEN [fs |-> st.fs, last |-> [got EXCEPT !.count = st.chunk_index]]
         ELSE [fs |-> WriteFile(st.fs, ExtName(d, f), ext),
               last |-> [got EXCEPT !.ok = TRUE, !.count = st.chunk_index]]

\* int(chunk_path.stem.split('.part')[1]), IndexError -> 0.  Path.stem drops
\* the last suffix, so the stem of "<file_id>.part<N>" is <file_id>; the
\* file ids of the model contain no ".part", the split has one element.
StemSplit(f, n) == <<f>>
get_chunk_index(f, n) ==
  LET parts == StemSplit(f, n) IN IF Len(parts) >= 2 THEN parts[2] ELSE 0

\* sorted(chunk_files, key=get_chunk_index): stable insertion sort of a
\* list of chunk indices by the key
RECURSIVE InsertByKey(_, _, _)
InsertByKey(sorted, x, f) ==
  IF sorted = <<>> THEN <<x>>
  ELSE IF get_chunk_index(f, sorted[Len(sorted)]) <= get_chunk_index(f, x)
       THEN Append(sorted, x)
       ELSE Append(InsertByKey(SubSeq(sorted, 1, Len(sorted) - 1), x, f), sorted[Len(sorted)])

\* (variant: the chunk files sorted by name, as text: "part10" before "part2")
LexKey(n) == IF n < 10 THEN 10 * n ELSE n + 1
RECURSIVE InsertLex(_, _)
InsertLex(sorted, x) ==
  IF sorted = <<>> THEN <<x>>
  ELSE IF LexKey(sorted[Len(sorted)]) <= LexKey(x)
       THEN Append(sorted, x)
       ELSE Append(InsertLex(SubSeq(sorted, 1, Len(sorted) - 1), x), sorted[Len(sorted)])
RECURSIVE SortedLexicographic(_, _)
SortedLexicographic(list, f) ==
  IF list = <<>> THEN <<>>
  ELSE InsertLex(SortedLexicographic(SubSeq(list, 1, Len(list) - 1), f), list[Len(list)])

RECURSIVE SortedByKey(_, _)
SortedByKey(list, f) ==
  IF list = <<>> THEN <<>>
  ELSE InsertByKey(SortedByKey(SubSeq(list, 1, Len(list) - 1), f), list[Len(list)], f)

RECURSIVE Concat(_, _, _, _)
Concat(fs, d, f, order) ==
  IF order = <<>> THEN <<>>
  ELSE fs[PartName(d, f, order[1])] \o Concat(fs, d, f, SubSeq(order, 2, Len(order)))

\* "content.startswith('.') and len(content) < 10"
ValidExts == {".jpg", ".png", ".gif"}

\* for date_dir in date_dirs: the first one whose date_dir / file_id
\* exists; "" when the loop ends without a break
RECURSIVE FirstExistingDir(_, _, _)
FirstExistingDir(fs, date_dirs, f) ==
  IF date_dirs = <<>> THEN ""
  ELSE IF Exists(fs, DirName(date_dirs[1], f)) THEN date_dirs[1]
       ELSE FirstExistingDir(fs, Tail(date_dirs), f)

\* assemble_chunks(base_dir, file_id, date_dirs): ok = FALSE stands for
\* ChunkError; date_dirs = <<>> for a call without candidates (base_dir d
\* is used), otherwise d is ignored.
assemble_chunks(fs, base_dir, f, date_dirs) ==
  LET d == IF date_dirs = <<>> THEN base_dir ELSE FirstExistingDir(fs, date_dirs, f)
      n == count_existing_chunks(fs, d, f)
      chunk_files == [i \in 1..n |-> i - 1]
      from_ext == IF Exists(fs, ExtName(d, f)) /\ fs[ExtName(d, f)] \in ValidExts
                  THEN fs[ExtName(d, f)] ELSE ".jpg"
      file_ext == IF from_ext = ".jpg" /\ Exists(fs, LegacyName(d, f))
                     /\ fs[LegacyName(d, f)] \in ValidExts
                  THEN fs[LegacyName(d, f)] ELSE from_ext
  IN IF d = "" \/ n = 0
     THEN [NoAssemble EXCEPT !.dir = d, !.fid = f, !.date_dirs = date_dirs]
     ELSE [dir |-> d, fid |-> f, date_dirs |-> date_dirs, ok |-> TRUE,
           data |-> Concat(fs, d, f, SortedByKey(chunk_files, f)),
           ext |-> file_ext]

ChunkInit ==
  /\ disk = <<>>
  /\ dl_last = NoDownload
  /\ as_last = NoAssemble
  /\ stored = <<>>

\* One call of download_file_in_chunks.
DownloadCall ==
  \E d \in Dirs, f \in FileIds, ext \in ExtArgs, srv \in Served :
    /\ LET r == download_file_in_chunks(disk, d, f, ext[1], ext[2], srv)
       IN /\ disk' = r.fs
          /\ dl_last' = r.last
          /\ stored' = IF Fresh(disk, d, f) /\ r.last.ok /\ r.last.requested
                       THEN [k \in DOMAIN stored \cup {<<d, f>>} |->
                               IF k = <<d, f>> THEN Payload(srv.size) ELSE stored[k]]
                       ELSE stored
    /\ as_last' = NoAssemble

\* One call of assemble_chunks(base_dir, file_id).
AssembleCall ==
  \E d \in Dirs, f \in FileIds :
    /\ as_last' = assemble_chunks(disk, d, f, <<>>)
    /\ dl_last' = NoDownload
    /\ UNCHANGED <<disk, stored>>

\* ---- chunk sets as they can be found on disk ----
MaxParts == 11

\* a chunk set of part0..part(n-1), with or without one more file after a
\* gap (a chunk file removed from the middle of a longer set); each chunk
\* holds its own index
GapDisks ==
  {[name \in {PartName("d1", "f1", i) : i \in S} |-> <<name[4]>>] :
     S \in {0..(n - 1) : n \in 0..MaxParts}
           \cup {(0..(n - 1)) \cup {n + 1} : n \in 0..MaxParts}}

GapsInit ==
  /\ disk \in GapDisks
  /\ dl_last = NoDownload
  /\ as_last = NoAssemble
  /\ stored = <<>>

ChunkNext ==
  \/ DownloadCall /\ UNCHANGED <<fvars, mvars, xvars, hvars, evars>>
  \/ AssembleCall /\ UNCHANGED <<fvars, mvars, xvars, hvars, evars>>

\* ---- lookup over date directories and sidecars ----
\* the date directories; a base_dir of the model stands for date_dir / file_id
DateDirs == {"d1", "d2"}
DateDirLists == {<<"d1", "d2">>, <<"d2", "d1">>, <<"d2">>}

\* downloads into the date directories: complete bodies of one or two
\* bytes, or a request that fails
LookupServed ==
  {srv \in Served : srv.size \in {1, 2} /\ srv.has_length /\ srv.fail \in {"none", "request"}}
LookupExtArgs == {<<"", "">>, <<".png", "">>}

\* what a sidecar found on disk can hold: an extension, or something that
\* is not one (no leading dot, too long, undecodable)
SidecarContents == {".jpg", ".gif", "garbage"}

DownloadInto ==
  \E d \in DateDirs, f \in FileIds, ext \in LookupExtArgs, srv \in LookupServed :
    /\ LET r == download_file_in_chunks(disk, d, f, ext[1], ext[2], srv)
       IN /\ disk' = r.fs
          /\ dl_last' = r.last
    /\ as_last' = NoAssemble
    /\ UNCHANGED stored

\* A chunk set laid down by an earlier version or damaged since: a sidecar
\* of either kind appears next to a stored set.
PlaceSidecar ==
  \E d \in DateDirs, f \in FileIds, legacy \in BOOLEAN, content \in SidecarContents :
    /\ Exists(disk, PartName(d, f, 0))
    /\ disk' = WriteFile(disk, IF legacy THEN LegacyName(d, f) ELSE ExtName(d, f), content)
    /\ dl_last' = NoDownload
    /\ as_last' = NoAssemble
    /\ UNCHANGED stored

\* assemble_chunks(base_dir, file_id, date_dirs=[...])
AssembleDated ==
  \E f \in FileIds, dd \in DateDirLists :
    /\ as_last' = assemble_chunks(disk, "", f, dd)
    /\ dl_last' = NoDownload
    /\ UNCHANGED <<disk, stored>>

\* assemble_chunks(base_dir, file_id) on one of the date directories
AssembleIn ==
  \E d \in DateDirs, f \in FileIds :
    /\ as_last' = assemble_chunks(disk, d, f, <<>>)
    /\ dl_last' = NoDownload
    /\ UNCHANGED <<disk, stored>>

LookupNext ==
  \/ DownloadInto /\ UNCHANGED <<fvars, mvars, xvars, hvars, evars>>
  \/ PlaceSidecar /\ UNCHANGED <<fvars, mvars, xvars, hvars, evars>>
  \/ AssembleDated /\ UNCHANGED <<fvars, mvars, xvars, hvars, evars>>
  \/ AssembleIn /\ UNCHANGED <<fvars, mvars, xvars, hvars, evars>>

----------------------------------------------------------------------------
(***************************************************************************)
(* Cipher: get_encryption_key, encrypt_data, decrypt_data and the in-place *)
(* segment encryption of convert_hls_api                                   *)
(***************************************************************************)
\* settings.SECRET_KEY.encode(), here three bytes
SECRET_KEY == <<115, 51, 197>>

KEY_LEN == 32

\* the longest short input
MaxCipherLen == 2

\* byte values inputs are made of: NUL, an ASCII letter, a non-ASCII byte
ByteValues == {0, 65, 255}

\* (variant: the key is padded with its first byte)
PadKey(key) == key \o <<key[1]>>

\* key = key + key
DoubleKey(key) == key \o key

\* while len(key) < 32: key = key + key; return key[:32]
RECURSIVE Doubled(_)
Doubled(key) == IF Len(key) < KEY_LEN THEN Doubled(DoubleKey(key)) ELSE key
get_encryption_key == SubSeq(Doubled(SECRET_KEY), 1, KEY_LEN)

\* (variant: byte addition modulo 256 instead of exclusive or)
AddBytes(a, b) == (a + b) % 256

\* byte ^ byte
RECURSIVE Xor(_, _)
Xor(a, b) ==
  IF a = 0 /\ b = 0 THEN 0
  ELSE (((a % 2) + (b % 2)) % 2) + 2 * Xor(a \div 2, b \div 2)

\* (variant: the keystream goes on where the previous unit stopped)
KeystreamCarried(prev_end) == prev_end

\* for i, byte in enumerate(data): the index restarts with every call
KeystreamStart(prev_end) == prev_end - prev_end

\* byte ^ key[i % len(key)] for every byte, i counted from start
XorKey(data, start) ==
  LET key == get_encryption_key
  IN [k \in 1..Len(data) |-> Xor(data[k], key[((start + k - 1) % Len(key)) + 1])]

\* the base64 alphabet and padding, as character codes
B64Char(v) ==
  IF v < 26 THEN 65 + v
  ELSE IF v < 52 THEN 97 + (v - 26)
  ELSE IF v < 62 THEN 48 + (v - 52)
  ELSE IF v = 62 THEN 43 ELSE 47
B64Pad == 61
B64Val(c) == CHOOSE v \in 0..63 : B64Char(v) = c

\* base64.b64encode
RECURSIVE b64encode(_)
b64encode(b) ==
  IF Len(b) = 0 THEN <<>>
  ELSE IF Len(b) = 1
  THEN <<B64Char(b[1] \div 4), B64Char((b[1] % 4) * 16), B64Pad, B64Pad>>
  ELSE IF Len(b) = 2
  THEN <<B64Char(b[1] \div 4), B64Char((b[1] % 4) * 16 + (b[2] \div 16)),
         B64Char((b[2] % 16) * 4), B64Pad>>
  ELSE <<B64Char(b[1] \div 4), B64Char((b[1] % 4) * 16 + (b[2] \div 16)),
         B64Char((b[2] % 16) * 4 + (b[3] \div 64)), B64Char(b[3] % 64)>>
       \o b64encode(SubSeq(b, 4, Len(b)))

\* base64.b64decode of well-formed text
RECURSIVE b64decode(_)
b64decode(t) ==
  IF Len(t) < 4 THEN <<>>
  ELSE LET v1 == B64Val(t[1])
           v2 == B64Val(t[2])
           first == v1 * 4 + (v2 \div 16)
       IN IF t[3] = B64Pad THEN <<first>>
          ELSE LET v3 == B64Val(t[3])
                   second == (v2 % 16) * 16 + (v3 \div 4)
               IN IF t[4] = B64Pad THEN <<first, second>>
                  ELSE <<first, second, (v3 % 4) * 64 + B64Val(t[4])>>
                       \o b64decode(SubSeq(t, 5, Len(t)))

encrypt_data(data, prev_end) == b64encode(XorKey(data, KeystreamStart(prev_end)))

decrypt_data(encrypted_data) == XorKey(b64decode(encrypted_data), 0)

\* the segment loop of convert_hls_api: every segment is rewritten with its
\* bytes XORed, the index counted from the segment's first byte
RECURSIVE EncryptSegments(_, _)
EncryptSegments(segs, prev_end) ==
  IF segs = <<>> THEN <<>>
  ELSE <<XorKey(segs[1], KeystreamStart(prev_end))>>
       \o EncryptSegments(Tail(segs), prev_end + Len(segs[1]))

RECURSIVE BytesOfLen(_)
BytesOfLen(n) ==
  IF n = 0 THEN {<<>>}
  ELSE {Append(b, v) : b \in BytesOfLen(n - 1), v \in ByteValues}

\* inputs: every string up to MaxCipherLen, and strings longer than the key
CipherInputs ==
  UNION {BytesOfLen(n) : n \in 0..MaxCipherLen}
    \cup {[k \in 1..n |-> v] : v \in ByteValues, n \in {KEY_LEN + 1, KEY_LEN + MaxCipherLen}}

SegmentInputs == BytesOfLen(1) \cup {[k \in 1..(KEY_LEN + 1) |-> v] : v \in ByteValues}

NotDecrypted == <<-1>>
NoFirst == [plain |-> <<-1>>, token |-> <<>>]

CipherIdle ==
  /\ c_plain = <<>>
  /\ c_token = <<>>
  /\ c_back = NotDecrypted
  /\ c_pos = 0
  /\ c_first = NoFirst
  /\ c_segs_in = <<>>
  /\ c_segs = <<>>

EncryptCall ==
  \E x \in CipherInputs :
    /\ c_plain' = x
    /\ c_token' = encrypt_data(x, c_pos)
    /\ c_pos' = KeystreamStart(c_pos) + Len(x)
    /\ c_back' = NotDecrypted
    /\ c_first' = IF c_first = NoFirst /\ c_token # <<>>
                  THEN [plain |-> c_plain, token |-> c_token]
                  ELSE c_first
    /\ c_segs_in' = <<>>
    /\ c_segs' = <<>>

DecryptCall ==
  /\ c_token # <<>>
  /\ c_back' = decrypt_data(c_token)
  /\ UNCHANGED <<c_plain, c_token, c_pos, c_first, c_segs_in, c_segs>>

EncryptSegmentsCall ==
  \E a \in SegmentInputs, b \in SegmentInputs :
    /\ c_segs_in' = <<a, b>>
    /\ c_segs' = EncryptSegments(<<a, b>>, c_pos)
    /\ c_pos' = KeystreamStart(c_pos + Len(a)) + Len(b)
    /\ c_plain' = <<>>
    /\ c_token' = <<>>
    /\ c_back' = NotDecrypted
    /\ c_first' = NoFirst

CipherNext ==
  \/ EncryptCall /\ UNCHANGED <<fvars, cvars, mvars, hvars, evars>>
  \/ DecryptCall /\ UNCHANGED <<fvars, cvars, mvars, hvars, evars>>
  \/ EncryptSegmentsCall /\ UNCHANGED <<fvars, cvars, mvars, hvars, evars>>

\* ---- get_encryption_key, statement by statement ----
MaxSecretLen == 34

\* the secrets: one of every length from 1 (Django refuses an empty
\* SECRET_KEY) to MaxSecretLen, of distinct bytes, and the secret of the
\* cipher above
Secrets == {[i \in 1..n |-> i] : n \in 1..MaxSecretLen} \cup {SECRET_KEY}

NoKey == <<>>

KeyIdle ==
  /\ k_secret = NoKey
  /\ k_key = NoKey
  /\ k_pc = "idle"
  /\ k_result = NoKey

\* key = settings.SECRET_KEY.encode()
KeyEnter ==
  /\ k_pc \in {"idle", "done"}
  /\ \E secret \in Secrets :
       /\ k_secret' = secret
       /\ k_key' = secret
  /\ k_pc' = "loop"
  /\ k_result' = NoKey

\* one iteration of "while len(key) < 32"
KeyDouble ==
  /\ k_pc = "loop"
  /\ Len(k_key) < KEY_LEN
  /\ k_key' = DoubleKey(k_key)
  /\ UNCHANGED <<k_secret, k_pc, k_result>>

\* return key[:32]
KeyReturn ==
  /\ k_pc = "loop"
  /\ Len(k_key) >= KEY_LEN
  /\ k_result' = SubSeq(k_key, 1, KEY_LEN)
  /\ k_pc' = "done"
  /\ UNCHANGED <<k_secret, k_key>>

KeyNext ==
  \/ KeyEnter /\ UNCHANGED <<fvars, cvars, mvars, xvars, hvars, dvars, rvars, qvars, ivars>>
  \/ KeyDouble /\ UNCHANGED <<fvars, cvars, mvars, xvars, hvars, dvars, rvars, qvars, ivars>>
  \/ KeyReturn /\ UNCHANGED <<fvars, cvars, mvars, xvars, hvars, dvars, rvars, qvars, ivars>>

----------------------------------------------------------------------------
(***************************************************************************)
(* Upload path: upload_chunk, merge_chunks, check_file_exists              *)
(***************************************************************************)
Days == {"20251115"}
Uuids == {"u1", "u2"}
FileNames == {"", "a.jpg", "b.bin"}

\* mimetypes.guess_type(file_name) and the extension lists
IsImage(file_name) == file_name = "a.jpg"
IsVideo(file_name) == file_name = "c.mp4"
\* is_image or is_video
IsMedia(file_name) == IsImage(file_name) \/ IsVideo(file_name)

\* what the client sends under each chunk_uuid
ChunkBytes(u) == IF u = "u1" THEN <<1>> ELSE <<2>>

\* hashlib.md5(data).hexdigest(): a digest that differs for different
\* byte strings (bytes are 1 and 2, read as a numeral in base 3)
RECURSIVE Numeral(_)
Numeral(b) == IF b = <<>> THEN 0 ELSE 3 * Numeral(SubSeq(b, 1, Len(b) - 1)) + b[Len(b)]
MD5(b) == <<Numeral(b)>>

\* a request without file_md5
NoHash == <<>>
\* the hash a request can declare: that of the payload u1 + u2
Hashes == {MD5(<<1, 2>>)}

\* the chunks lists a merge request can declare: [{chunk_index, chunk_uuid}, ...]
ChunkLists ==
  {<<>>,
   <<[chunk_index |-> 0, chunk_uuid |-> "u1"], [chunk_index |-> 1, chunk_uuid |-> "u2"]>>,
   <<[chunk_index |-> 1, chunk_uuid |-> "u2"], [chunk_index |-> 0, chunk_uuid |-> "u1"]>>,
   <<[chunk_index |-> 0, chunk_uuid |-> "u2"], [chunk_index |-> 1, chunk_uuid |-> "u1"]>>}

\* thumbnail_base64: whether the client sends a thumbnail of its own;
\* generate_thumbnail: the request's flag (default true)
MergeRequests ==
  [file_md5 : Hashes \cup {NoHash}, file_name : FileNames, chunks : ChunkLists,
   thumbnail_base64 : {FALSE}, generate_thumbnail : {TRUE}]

\* outcomes of the steps of a request that can fail: storing the client's
\* thumbnail (decode, encrypt, write) and producing one on the server
\* (image decoding, ffmpeg)
ThumbEnvs == [client : {"ok", "fail"}, server : {"ok", "fail"}]
NoEnv == [client |-> "ok", server |-> "ok"]

NoRequest == [file_md5 |-> NoHash]

NoResponse ==
  [op |-> "none", success |-> FALSE, exists |-> FALSE, file_id |-> 0, message |-> "",
   paths |-> {}]

\* a JSON response; paths: the server filesystem paths its text carries
Response(op, success, exists, file_id, message) ==
  [op |-> op, success |-> success, exists |-> exists, file_id |-> file_id,
   message |-> message, paths |-> {}]

\* os.path.join(FS_MEDIA_ROOT, time_str, file_md5, name)
StoragePath(day, md5, name) == <<day, md5, name>>

\* (variant: the file is left in place)
KeepFile(fs, name) == fs

\* os.remove(path)
RemoveFile(fs, name) == [x \in DOMAIN fs \ {name} |-> fs[x]]

\* FileInfo.objects.filter(md5=file_md5): ids of the matching records
IdsByMd5(recs, md5) == {i \in 1..Len(recs) : recs[i].md5 = md5}

\* (variant: the lookup by file name instead of by md5)
FirstByName(recs, req) ==
  LET ids == {i \in 1..Len(recs) : recs[i].name = req.file_name}
  IN IF ids = {} THEN 0 ELSE CHOOSE i \in ids : \A j \in ids : j <= i

\* FileInfo.objects.filter(md5=file_md5).first(), Meta.ordering =
\* ['-created_time']: the newest match, 0 for None
FirstByMd5(recs, req) ==
  LET ids == IdsByMd5(recs, req.file_md5)
  IN IF ids = {} THEN 0 ELSE CHOOSE i \in ids : \A j \in ids : j <= i

\* chunks_info.sort(key=lambda x: x.get('chunk_index', 0)): stable
RECURSIVE InsertByIndex(_, _)
InsertByIndex(sorted, x) ==
  IF sorted = <<>> THEN <<x>>
  ELSE IF sorted[Len(sorted)].chunk_index <= x.chunk_index
       THEN Append(sorted, x)
       ELSE Append(InsertByIndex(SubSeq(sorted, 1, Len(sorted) - 1), x), sorted[Len(sorted)])

\* (variant: the chunks are taken in the order the request lists them)
ListedOrder(list) == list

RECURSIVE SortByIndex(_)
SortByIndex(list) ==
  IF list = <<>> THEN <<>>
  ELSE InsertByIndex(SortByIndex(SubSeq(list, 1, Len(list) - 1)), list[Len(list)])

\* the loop that appends every chunk file to the merged file; stops with
\* ok = FALSE at the first chunk file that does not exist
RECURSIVE MergeLoop(_, _, _, _, _, _, _)
MergeLoop(fs, day, md5, merged, chunks, i, uuids) ==
  IF i > Len(chunks) THEN [fs |-> fs, ok |-> TRUE, chunk_uuids |-> uuids]
  ELSE LET chunk_path == StoragePath(day, md5, chunks[i].chunk_uuid)
       IN IF Exists(fs, chunk_path)
          THEN MergeLoop(WriteFile(fs, merged, fs[merged] \o fs[chunk_path]),
                         day, md5, merged, chunks, i + 1,
                         Append(uuids, chunks[i].chunk_uuid))
          ELSE [fs |-> fs, ok |-> FALSE, chunk_uuids |-> uuids]

\* upload_chunk: store the chunk under today's directory of file_md5
upload_chunk(fs, day, has_chunk, file_md5, chunk_uuid) ==
  IF ~has_chunk
  THEN [fs |-> fs, resp |-> Response("upload", FALSE, FALSE, 0, "no_chunk")]
  ELSE IF file_md5 = NoHash
  THEN [fs |-> fs, resp |-> Response("upload", FALSE, FALSE, 0, "no_md5")]
  ELSE [fs |-> WriteFile(fs, StoragePath(day, file_md5, chunk_uuid), ChunkBytes(chunk_uuid)),
        \* 'data': {..., 'chunk_path': chunk_path, ...}
        resp |-> [Response("upload", TRUE, FALSE, 0, "uploaded")
                    EXCEPT !.paths = {StoragePath(day, file_md5, chunk_uuid)}]]

\* hls_addr of a record without HLS files
NoAddr == <<>>

\* the thumbnail files (thumb_{uuid}.enc): one name per origin
ClientThumbName == "thumb_client.enc"
ServerThumbName == "thumb_server.enc"

\* the bytes of the thumbnail the client sends
ClientThumbBytes == <<7>>

\* the picture scaled down from a source: stands for the image library's or
\* ffmpeg's output, which depends on the source bytes
ThumbnailOf(source) == <<Len(source)>>

\* the chunk files of a record that exist, joined in list order: the loop
\* "for chunk_uuid in chunks: if os.path.exists(chunk_path): write it" of
\* generate_thumbnail and convert_hls_api
RECURSIVE JoinExisting(_, _, _)
JoinExisting(fs, storage, chunks) ==
  IF chunks = <<>> THEN <<>>
  ELSE (IF Exists(fs, Append(storage, chunks[1]))
        THEN fs[Append(storage, chunks[1])] ELSE <<>>)
       \o JoinExisting(fs, storage, Tail(chunks))

\* generate_thumbnail(file_info, storage_dir, chunks): the new filesystem
\* and the thumbnail file name ("" for None); server = "ok" when the image
\* library or ffmpeg yields a picture
generate_thumbnail(fs, name, storage, chunks, server) ==
  IF ~IsMedia(name) THEN [fs |-> fs, thumbnail_addr |-> ""]
  ELSE LET source == JoinExisting(fs, storage, chunks)
       IN IF source = <<>> \/ server # "ok"
          THEN [fs |-> fs, thumbnail_addr |-> ""]
          ELSE [fs |-> WriteFile(fs, Append(storage, ServerThumbName),
                                 encrypt_data(ThumbnailOf(source), 0)),
                thumbnail_addr |-> ServerThumbName]

\* the thumbnail part of merge_chunks
merge_thumbnail(fs, req, storage, chunks, env) ==
  IF req.thumbnail_base64 /\ req.generate_thumbnail
  THEN IF env.client = "ok"
       THEN [fs |-> WriteFile(fs, Append(storage, ClientThumbName),
                              encrypt_data(ClientThumbBytes, 0)),
             thumbnail_addr |-> ClientThumbName]
       ELSE IF IsMedia(req.file_name) /\ chunks # <<>>
            THEN generate_thumbnail(fs, req.file_name, storage, chunks, env.server)
            ELSE [fs |-> fs, thumbnail_addr |-> ""]
  ELSE IF req.generate_thumbnail /\ IsMedia(req.file_name) /\ chunks # <<>>
       THEN generate_thumbnail(fs, req.file_name, storage, chunks, env.server)
       ELSE [fs |-> fs, thumbnail_addr |-> ""]

\* (variant: a thumbnail that could not be made undoes the registration)
RegisteredUnlessNoThumbnail(recs, rec, req) ==
  IF req.generate_thumbnail /\ IsMedia(req.file_name) /\ rec.thumbnail_addr = ""
  THEN recs ELSE Append(recs, rec)

\* FileInfo.objects.create(...) and, after the thumbnail part, whose
\* failures are caught and logged, status = 'enable' and save()
Registered(recs, rec, req) == Append(recs, rec)

\* (variant: the merged bytes are accepted without comparing the hash)
HashUnchecked(bytes, file_md5) == TRUE

\* calculated_md5 = hashlib.md5(f.read()).hexdigest(); calculated_md5 == file_md5
HashVerified(bytes, file_md5) == MD5(bytes) = file_md5

\* merge_chunks: the new filesystem, the new table and the response
merge_chunks(fs, recs, day, req, env) ==
  IF req.file_md5 = NoHash \/ req.file_name = "" \/ req.chunks = <<>>
  THEN [fs |-> fs, recs |-> recs, resp |-> Response("merge", FALSE, FALSE, 0, "missing_params")]
  ELSE IF FirstByMd5(recs, req) # 0
  THEN [fs |-> fs, recs |-> recs,
        resp |-> Response("merge", TRUE, TRUE, FirstByMd5(recs, req), "exists")]
  ELSE
    LET merged == StoragePath(day, req.file_md5, req.file_name)
        sorted == SortByIndex(req.chunks)
        \* open(merged_file_path, 'wb')
        m == MergeLoop(WriteFile(fs, merged, <<>>), day, req.file_md5, merged, sorted, 1, <<>>)
    IN
    IF ~m.ok
    THEN [fs |-> m.fs, recs |-> recs,
          resp |-> Response("merge", FALSE, FALSE, 0, "chunk_missing")]
    ELSE IF ~HashVerified(m.fs[merged], req.file_md5)
    THEN [fs |-> RemoveFile(m.fs, merged), recs |-> recs,
          resp |-> Response("merge", FALSE, FALSE, 0, "md5_mismatch")]
    ELSE
      LET id == Len(recs) + 1
          storage == <<day, req.file_md5>>
          t == merge_thumbnail(RemoveFile(m.fs, merged), req, storage, m.chunk_uuids, env)
          rec == [id |-> id, md5 |-> req.file_md5, name |-> req.file_name,
                  chunks |-> m.chunk_uuids, time_str |-> day, status |-> "enable",
                  thumbnail_addr |-> t.thumbnail_addr, hls_addr |-> NoAddr,
                  delete_time |-> ""]
          recs1 == Registered(recs, rec, req)
      IN [fs |-> t.fs, recs |-> recs1,
          resp |-> IF Len(recs1) > Len(recs)
                   THEN Response("merge", TRUE, FALSE, id, "uploaded")
                   ELSE Response("merge", FALSE, FALSE, 0, "error")]

\* check_file_exists
check_file_exists(recs, req) ==
  IF req.file_md5 = NoHash THEN Response("check", FALSE, FALSE, 0, "no_md5")
  ELSE IF FirstByMd5(recs, req) # 0
       THEN Response("check", TRUE, TRUE, FirstByMd5(recs, req), "exists")
       ELSE Response("check", TRUE, FALSE, 0, "absent")

MergeInit ==
  /\ today \in Days
  /\ mdisk = <<>>
  /\ records = <<>>
  /\ m_req = NoRequest
  /\ m_env = NoEnv
  /\ m_last = NoResponse

UploadChunk ==
  \E has_chunk \in BOOLEAN, h \in Hashes \cup {NoHash}, u \in Uuids :
    LET r == upload_chunk(mdisk, today, has_chunk, h, u)
    IN /\ mdisk' = r.fs
       /\ m_req' = [file_md5 |-> h, chunk_uuid |-> u]
       /\ m_env' = NoEnv
       /\ m_last' = r.resp
       /\ UNCHANGED <<today, records>>

MergeChunks ==
  \E req \in MergeRequests, env \in ThumbEnvs :
    LET r == merge_chunks(mdisk, records, today, req, env)
    IN /\ mdisk' = r.fs
       /\ records' = r.recs
       /\ m_req' = req
       /\ m_env' = IF r.resp.message = "uploaded" THEN env ELSE NoEnv
       /\ m_last' = r.resp
       /\ UNCHANGED today

CheckFileExists ==
  \E h \in Hashes \cup {NoHash} :
    /\ m_req' = [file_md5 |-> h]
    /\ m_env' = NoEnv
    /\ m_last' = check_file_exists(records, [file_md5 |-> h])
    /\ UNCHANGED <<today, mdisk, records>>

MergeNext ==
  \/ UploadChunk /\ UNCHANGED <<fvars, cvars, xvars, hvars, evars>>
  \/ MergeChunks /\ UNCHANGED <<fvars, cvars, xvars, hvars, evars>>
  \/ CheckFileExists /\ UNCHANGED <<fvars, cvars, xvars, hvars, evars>>

\* The upload path before any request.
MergeIdle ==
  /\ today = "20251115"
  /\ mdisk = <<>>
  /\ records = <<>>
  /\ m_req = NoRequest
  /\ m_env = NoEnv
  /\ m_last = NoResponse

\* ---- operations on registered records ----
MaxHlsRuns == 1

\* ids a request can name: 0 for none, registered ones, one that is not
RecordIds == 0..(Cardinality(Hashes) + 1)

\* get_file_storage_dir / get_file_chunks for the records merge_chunks
\* creates (data.storage_dir and data.chunks; the directory is never removed)
get_file_storage_dir(rec) == <<rec.time_str, rec.md5>>
get_file_chunks(rec) == rec.chunks

\* files of a conversion run in storage_dir/HLS
HlsName(storage, kind, run, i) == Append(Append(storage, "HLS"), <<kind, run, i>>)

\* what a conversion meets.  The transcoder: "ok" (exit 0, playlist
\* written), "nonzero", "no_output" (exit 0 without playlist), "timeout",
\* "missing" (no ffmpeg).  A step of the handler itself that raises:
\* "assemble" (writing the temporary input), "encrypt" (rewriting a
\* segment), "save" (file_info.save()).
HlsEnvs ==
  {[ffmpeg |-> x, fault |-> "none"] :
     x \in {"ok", "nonzero", "no_output", "timeout", "missing"}}
  \cup {[ffmpeg |-> "ok", fault |-> y] : y \in {"assemble", "encrypt", "save"}}

\* the segments ffmpeg cuts a source into: one per byte of the source
SegmentsOf(source) == [i \in 1..Len(source) |-> <<source[i]>>]

RECURSIVE WriteSegments(_, _, _, _, _)
WriteSegments(fs, storage, run, segs, i) ==
  IF i > Len(segs) THEN fs
  ELSE WriteSegments(WriteFile(fs, HlsName(storage, "ts", run, i), segs[i]),
                     storage, run, segs, i + 1)

\* (variant: the keystream runs on from one segment to the next)
RECURSIVE EncryptCarried(_, _, _, _, _)
EncryptCarried(fs, storage, run, playlist, n) ==
  IF n = 0 THEN fs
  ELSE LET done == EncryptCarried(fs, storage, run, playlist, n - 1)
           ts_path == HlsName(storage, "ts", run, playlist[n])
       IN IF Exists(done, ts_path)
          THEN WriteFile(done, ts_path, XorKey(done[ts_path], n - 1))
          ELSE done

\* the in-place encryption of the first n segments the playlist names
RECURSIVE EncryptInPlace(_, _, _, _, _)
EncryptInPlace(fs, storage, run, playlist, n) ==
  IF n = 0 THEN fs
  ELSE LET done == EncryptInPlace(fs, storage, run, playlist, n - 1)
           ts_path == HlsName(storage, "ts", run, playlist[n])
       IN IF Exists(done, ts_path)
          THEN WriteFile(done, ts_path, XorKey(done[ts_path], 0))
          ELSE done

\* (variant: the temporary file is not removed when the transcoder timed out)
cleanup_unless_timeout(tmp, run, env) ==
  IF env.ffmpeg = "timeout" THEN tmp ELSE tmp \ {run}

\* finally: if os.path.exists(temp_input_path): os.remove(temp_input_path)
finally_cleanup(tmp, run, env) == tmp \ {run}

\* (variant: the plaintext playlist is left next to the encrypted one)
KeepPlaintext(fs, hls_output) == fs

\* if os.path.exists(hls_output): os.remove(hls_output)
RemovePlaintext(fs, hls_output) == RemoveFile(fs, hls_output)

\* convert_hls_api
convert_hls_api(fs, tmp, recs, id, run, env) ==
  LET fail(msg) == [fs |-> fs, tmp |-> tmp, recs |-> recs, started |-> FALSE,
                    source |-> <<>>, resp |-> Response("hls", FALSE, FALSE, id, msg)]
  IN
  IF id = 0 THEN fail("no_id")
  ELSE IF id > Len(recs) THEN fail("not_found")
  ELSE IF ~IsVideo(recs[id].name) THEN fail("not_video")
  ELSE IF recs[id].hls_addr # NoAddr
  THEN [fail("has_hls") EXCEPT !.resp = Response("hls", TRUE, FALSE, id, "has_hls")]
  ELSE IF get_file_chunks(recs[id]) = <<>> THEN fail("no_chunks")
  ELSE
    LET storage == get_file_storage_dir(recs[id])
        \* tempfile.NamedTemporaryFile(delete=False)
        tmp1 == tmp \cup {run}
        source == JoinExisting(fs, storage, get_file_chunks(recs[id]))
        segs == SegmentsOf(source)
        playlist == [i \in 1..Len(segs) |-> i]
        m3u8 == HlsName(storage, "m3u8", run, 0)
        m3u8_enc == HlsName(storage, "m3u8.enc", run, 0)
        transcoded == WriteFile(WriteSegments(fs, storage, run, segs, 1), m3u8, playlist)
        \* the playlist with every segment name marked ".enc"
        rewritten == [i \in 1..Len(playlist) |-> 100 + playlist[i]]
        published == RemovePlaintext(
                       WriteFile(EncryptInPlace(transcoded, storage, run, playlist,
                                                Len(playlist)),
                                 m3u8_enc, encrypt_data(rewritten, 0)),
                       m3u8)
        out(fs1, recs1, ok, msg) ==
          [fs |-> fs1, tmp |-> finally_cleanup(tmp1, run, env), recs |-> recs1,
           started |-> TRUE, source |-> source,
           resp |-> Response("hls", ok, FALSE, id, msg)]
    IN
    IF env.fault = "assemble" THEN out(fs, recs, FALSE, "error")
    ELSE IF env.ffmpeg = "missing" THEN out(fs, recs, FALSE, "no_ffmpeg")
    \* an empty input cannot be transcoded
    ELSE IF env.ffmpeg = "nonzero" \/ source = <<>> THEN out(fs, recs, FALSE, "ffmpeg_failed")
    ELSE IF env.ffmpeg = "timeout"
    THEN out(WriteSegments(fs, storage, run, SubSeq(segs, 1, 1), 1), recs, FALSE, "timeout")
    ELSE IF env.ffmpeg = "no_output"
    THEN out(WriteSegments(fs, storage, run, segs, 1), recs, FALSE, "no_playlist")
    ELSE IF env.fault = "encrypt"
    THEN out(EncryptInPlace(transcoded, storage, run, playlist, 1), recs, FALSE, "error")
    ELSE IF env.fault = "save" THEN out(published, recs, FALSE, "error")
    ELSE out(published, [recs EXCEPT ![id].hls_addr = m3u8_enc], TRUE, "converted")

\* file_content_api: the bytes streamed, and whether the stream ended well
RECURSIVE file_generator(_, _, _)
file_generator(fs, storage, chunks) ==
  IF chunks = <<>> THEN [data |-> <<>>, ok |-> TRUE]
  ELSE IF ~Exists(fs, Append(storage, chunks[1])) THEN [data |-> <<>>, ok |-> FALSE]
  ELSE LET rest == file_generator(fs, storage, Tail(chunks))
       IN [data |-> fs[Append(storage, chunks[1])] \o rest.data, ok |-> rest.ok]

file_content_api(fs, recs, id) ==
  LET fail(msg) == [data |-> <<>>, resp |-> Response("content", FALSE, FALSE, id, msg)]
  IN IF id = 0 THEN fail("no_id")
     ELSE IF id > Len(recs) THEN fail("not_found")
     ELSE IF get_file_chunks(recs[id]) = <<>> THEN fail("no_chunks")
     ELSE LET g == file_generator(fs, get_file_storage_dir(recs[id]),
                                  get_file_chunks(recs[id]))
          IN [data |-> g.data,
              resp |-> Response("content", g.ok, FALSE, id,
                                IF g.ok THEN "streamed" ELSE "chunk_missing")]

\* generate_thumbnail_api
generate_thumbnail_api(fs, recs, id, server) ==
  LET fail(msg) == [fs |-> fs, recs |-> recs,
                    resp |-> Response("thumb", FALSE, FALSE, id, msg)]
  IN IF id = 0 THEN fail("no_id")
     ELSE IF id > Len(recs) THEN fail("not_found")
     ELSE IF ~IsMedia(recs[id].name) THEN fail("not_media")
     ELSE IF get_file_chunks(recs[id]) = <<>> THEN fail("no_chunks")
     ELSE LET storage == get_file_storage_dir(recs[id])
              chunks == get_file_chunks(recs[id])
          IN IF \E i \in 1..Len(chunks) : ~Exists(fs, Append(storage, chunks[i]))
             THEN fail("chunk_missing")
             ELSE LET t == generate_thumbnail(fs, recs[id].name, storage, chunks, server)
                  IN IF t.thumbnail_addr = "" THEN fail("not_generated")
                     ELSE [fs |-> t.fs,
                           recs |-> [recs EXCEPT ![id].thumbnail_addr = t.thumbnail_addr],
                           resp |-> Response("thumb", TRUE, FALSE, id, "generated")]

\* ts_pattern = os.path.join(storage_dir, f'hls_seg_{hls_uuid}_*.ts'): the
\* subdirectory of storage_dir the pattern looks in, "" for storage_dir itself
SegmentPatternDir == ""

\* glob.glob(ts_pattern): the files named hls_seg_{uuid}_*.ts in the
\* directory.  The files directly in a storage directory are chunk files,
\* thumbnails and the merged file, none of which has such a name; the
\* segments of a conversion are in its HLS subdirectory.
GlobSegments(fs, storage, subdir, run) ==
  IF subdir = "HLS"
  THEN {name \in DOMAIN fs :
          /\ Len(name) = Len(storage) + 2
          /\ name = HlsName(storage, "ts", run, name[Len(name)][3])}
  ELSE {}

\* (variant: the files are left in place)
RemoveNone(fs, names) == fs

\* os.remove of each of the files that exist
RECURSIVE RemoveAll(_, _)
RemoveAll(fs, names) ==
  IF names = {} THEN fs
  ELSE LET n == CHOOSE x \in names : TRUE
       IN RemoveAll(IF Exists(fs, n) THEN RemoveFile(fs, n) ELSE fs, names \ {n})

\* file_delete_api: soft delete.  The storage directory of a record whose
\* data no longer names it is found again through source_addr.
file_delete_api(fs, recs, id, day) ==
  LET fail(msg) == [fs |-> fs, recs |-> recs,
                    resp |-> Response("delete", FALSE, FALSE, id, msg)]
  IN IF id = 0 THEN fail("no_id")
     ELSE IF id > Len(recs) THEN fail("not_found")
     ELSE
       LET rec == recs[id]
           storage == get_file_storage_dir(rec)
           chunks == get_file_chunks(rec)
           \* for chunk_uuid in chunks: os.remove(chunk_path)
           fs1 == RemoveAll(fs, {Append(storage, chunks[i]) : i \in 1..Len(chunks)})
           \* if file_info.hls_addr: the manifest, then the globbed segments
           fs2 == IF rec.hls_addr = NoAddr THEN fs1
                  ELSE RemoveAll(RemoveAll(fs1, {rec.hls_addr}),
                                 GlobSegments(fs1, storage, SegmentPatternDir,
                                              rec.hls_addr[Len(rec.hls_addr)][2]))
       IN [fs |-> fs2,
           recs |-> [recs EXCEPT ![id].chunks = <<>>, ![id].status = "deleted",
                                 ![id].delete_time = day, ![id].hls_addr = NoAddr],
           resp |-> Response("delete", TRUE, FALSE, id, "deleted")]

MediaIdle ==
  /\ tmpfiles = {}
  /\ hls_runs = 0
  /\ h_out = <<>>

\* complete requests for an image and for a video
MediaRequests ==
  [file_md5 : Hashes, file_name : {"a.jpg", "c.mp4"},
   chunks : {<<[chunk_index |-> 0, chunk_uuid |-> "u1"],
               [chunk_index |-> 1, chunk_uuid |-> "u2"]>>},
   thumbnail_base64 : BOOLEAN, generate_thumbnail : {TRUE}]

\* The client uploads the chunks of a file before the file is registered.
UploadPiece ==
  \E h \in Hashes, u \in Uuids :
    LET r == upload_chunk(mdisk, today, TRUE, h, u)
    IN /\ records = <<>>
       /\ mdisk' = r.fs
       /\ m_req' = [file_md5 |-> h, chunk_uuid |-> u]
       /\ m_env' = NoEnv
       /\ m_last' = r.resp
       /\ UNCHANGED <<today, records, hvars>>

\* The client's merge request, sent once the chunks it lists are uploaded.
MergeMedia ==
  \E req \in MediaRequests, env \in ThumbEnvs :
    LET r == merge_chunks(mdisk, records, today, req, env)
    IN /\ \A i \in 1..Len(req.chunks) :
            Exists(mdisk, StoragePath(today, req.file_md5, req.chunks[i].chunk_uuid))
       /\ mdisk' = r.fs
       /\ records' = r.recs
       /\ m_req' = req
       /\ m_env' = IF r.resp.message = "uploaded" THEN env ELSE NoEnv
       /\ m_last' = r.resp
       /\ UNCHANGED <<today, hvars>>

\* A chunk file of a registered record disappears from the disk (the case
\* the os.path.exists tests of the assembling loops provide for).
LoseChunk ==
  \E id \in 1..Len(records), i \in 1..2 :
    /\ i <= Len(records[id].chunks)
    /\ Exists(mdisk, Append(get_file_storage_dir(records[id]), records[id].chunks[i]))
    /\ mdisk' = RemoveFile(mdisk, Append(get_file_storage_dir(records[id]),
                                         records[id].chunks[i]))
    /\ m_req' = [id |-> id]
    /\ m_env' = NoEnv
    /\ m_last' = Response("lost", TRUE, FALSE, id, "")
    /\ UNCHANGED <<today, records, hvars>>

ConvertHls ==
  \E id \in RecordIds, env \in HlsEnvs :
    LET r == convert_hls_api(mdisk, tmpfiles, records, id, hls_runs + 1, env)
    IN /\ r.started => hls_runs < MaxHlsRuns
       /\ mdisk' = r.fs
       /\ tmpfiles' = r.tmp
       /\ records' = r.recs
       /\ hls_runs' = IF r.started THEN hls_runs + 1 ELSE hls_runs
       /\ h_out' = r.source
       /\ m_req' = [id |-> id]
       /\ m_env' = IF r.started THEN env ELSE NoEnv
       /\ m_last' = r.resp
       /\ UNCHANGED today

FileContent ==
  \E id \in RecordIds :
    LET r == file_content_api(mdisk, records, id)
    IN /\ h_out' = r.data
       /\ m_req' = [id |-> id]
       /\ m_env' = NoEnv
       /\ m_last' = r.resp
       /\ UNCHANGED <<today, mdisk, records, tmpfiles, hls_runs>>

GenerateThumbnailApi ==
  \E id \in RecordIds, server \in {"ok", "fail"} :
    LET r == generate_thumbnail_api(mdisk, records, id, server)
    IN /\ mdisk' = r.fs
       /\ records' = r.recs
       /\ m_req' = [id |-> id]
       /\ m_env' = [client |-> "ok", server |-> server]
       /\ m_last' = r.resp
       /\ UNCHANGED <<today, hvars>>

FileDelete ==
  \E id \in RecordIds :
    LET r == file_delete_api(mdisk, records, id, today)
    IN /\ mdisk' = r.fs
       /\ records' = r.recs
       /\ m_req' = [id |-> id]
       /\ m_env' = NoEnv
       /\ m_last' = r.resp
       /\ UNCHANGED <<today, hvars>>

MediaNext ==
  \/ UploadPiece /\ UNCHANGED <<fvars, cvars, xvars, evars>>
  \/ MergeMedia /\ UNCHANGED <<fvars, cvars, xvars, evars>>
  \/ LoseChunk /\ UNCHANGED <<fvars, cvars, xvars, evars>>
  \/ ConvertHls /\ UNCHANGED <<fvars, cvars, xvars, evars>>
  \/ FileContent /\ UNCHANGED <<fvars, cvars, xvars, evars>>
  \/ GenerateThumbnailApi /\ UNCHANGED <<fvars, cvars, xvars, evars>>
  \/ FileDelete /\ UNCHANGED <<fvars, cvars, xvars, evars>>

\* ---- upload, merge, existence check and soft delete ----
LifecycleNext ==
  \/ UploadChunk /\ UNCHANGED <<fvars, cvars, xvars, hvars, evars>>
  \/ MergeChunks /\ UNCHANGED <<fvars, cvars, xvars, hvars, evars>>
  \/ CheckFileExists /\ UNCHANGED <<fvars, cvars, xvars, hvars, evars>>
  \/ FileDelete /\ UNCHANGED <<fvars, cvars, xvars, evars>>

\* ---- upload and merge across a change of the calendar day ----
\* the day after the one the server started on
Tomorrow == "20251116"

\* datetime.now().strftime('%Y%m%d') has a new value after midnight
MidnightPasses ==
  /\ today \in Days
  /\ today' = Tomorrow
  /\ UNCHANGED <<mdisk, records, m_req, m_env, m_last>>

\* The client's merge request for a file that gets no thumbnail, on the day
\* it is sent.
MergeLater ==
  \E req \in {r \in MergeRequests : r.file_name = "b.bin" /\ r.file_md5 # NoHash} :
    LET r == merge_chunks(mdisk, records, today, req, NoEnv)
    IN /\ mdisk' = r.fs
       /\ records' = r.recs
       /\ m_req' = req
       /\ m_env' = NoEnv
       /\ m_last' = r.resp
       /\ UNCHANGED today

CalendarNext ==
  \/ UploadPiece /\ UNCHANGED <<fvars, cvars, xvars, evars>>
  \/ MergeLater /\ UNCHANGED <<fvars, cvars, xvars, hvars, evars>>
  \/ MidnightPasses /\ UNCHANGED <<fvars, cvars, xvars, hvars, evars>>

----------------------------------------------------------------------------
(***************************************************************************)
(* Lookup among the date partitions (ALL.utils.find_file_in_date_dirs)     *)
(***************************************************************************)
MaxDays == 3

\* the date partitions media_root can hold, as day numbers (the names are
\* '%Y%m%d' strings, whose order is the order of the days), and one name
\* that is not a partition and sorts after every date
PartitionNames == 1..MaxDays
StrayName == MaxDays + 1
LookupIds == {"f1"}
Subdirs == {"", "preview"}

NotFound == <<>>
NoFind == [file_id |-> "", subdir |-> "", listed_desc |-> FALSE]

\* media_root / date / file_id [/ subdir]
TargetDir(date, f, subdir) ==
  IF subdir = "" THEN <<date, f>> ELSE <<date, f, subdir>>

\* media_root.iterdir(): the names directly under media_root
RootEntries(tree, files) == {p[1] : p \in tree} \cup files

\* every order in which iterdir can yield a set of names
RECURSIVE Orders(_)
Orders(S) ==
  IF S = {} THEN {<<>>}
  ELSE UNION {{<<x>> \o rest : rest \in Orders(S \ {x})} : x \in S}

RECURSIVE InsertDesc(_, _)
InsertDesc(sorted, x) ==
  IF sorted = <<>> THEN <<x>>
  ELSE IF x > Head(sorted) THEN <<x>> \o sorted
  ELSE <<Head(sorted)>> \o InsertDesc(Tail(sorted), x)

\* (variant: the entries scanned in the order iterdir yields them)
AsListed(listing) == listing

\* sorted(media_root.iterdir(), reverse=True)
RECURSIVE SortedDesc(_)
SortedDesc(listing) ==
  IF listing = <<>> THEN <<>>
  ELSE InsertDesc(SortedDesc(Tail(listing)), Head(listing))

\* the for loop: the first entry that is a directory and holds the target
RECURSIVE ScanDateDirs(_, _, _, _, _)
ScanDateDirs(tree, files, entries, f, subdir) ==
  IF entries = <<>> THEN NotFound
  ELSE IF Head(entries) \notin files /\ TargetDir(Head(entries), f, subdir) \in tree
       THEN TargetDir(Head(entries), f, subdir)
       ELSE ScanDateDirs(tree, files, Tail(entries), f, subdir)

\* find_file_in_date_dirs(media_root, file_id, subdir); a media_root that
\* does not exist has no entries
find_file_in_date_dirs(tree, files, now, listing, f, subdir) ==
  IF TargetDir(now, f, subdir) \in tree
  THEN TargetDir(now, f, subdir)
  ELSE ScanDateDirs(tree, files, SortedDesc(listing), f, subdir)

FindIdle ==
  /\ d_tree = {}
  /\ d_files = {}
  /\ d_now = 1
  /\ d_call = NoFind
  /\ d_found = NotFound

\* mkdir(parents=True) of a partition, of a file's directory in it or of a
\* subdirectory of that (what the site views do before a download)
MakeDirs ==
  \E date \in PartitionNames, f \in LookupIds, depth \in 1..3 :
    LET path == SubSeq(<<date, f, "preview">>, 1, depth)
    IN /\ path \notin d_tree
       /\ date <= d_now
       /\ d_tree' = d_tree \cup {SubSeq(path, 1, k) : k \in 1..depth}
       /\ d_call' = NoFind
       /\ d_found' = NotFound
       /\ UNCHANGED <<d_files, d_now>>

\* a plain file appears directly under media_root
StrayFile ==
  /\ StrayName \notin d_files
  /\ d_files' = d_files \cup {StrayName}
  /\ d_call' = NoFind
  /\ d_found' = NotFound
  /\ UNCHANGED <<d_tree, d_now>>

\* midnight passes
NextDay ==
  /\ d_now < MaxDays
  /\ d_now' = d_now + 1
  /\ d_call' = NoFind
  /\ d_found' = NotFound
  /\ UNCHANGED <<d_tree, d_files>>

FindCall ==
  \E f \in LookupIds, subdir \in Subdirs,
     listing \in Orders(RootEntries(d_tree, d_files)) :
    /\ d_found' = find_file_in_date_dirs(d_tree, d_files, d_now, listing, f, subdir)
    /\ d_call' = [file_id |-> f, subdir |-> subdir,
                  listed_desc |-> (listing = SortedDesc(listing))]
    /\ UNCHANGED <<d_tree, d_files, d_now>>

FindNext ==
  \/ MakeDirs /\ UNCHANGED <<fvars, cvars, mvars, xvars, hvars, kvars, rvars, qvars, ivars>>
  \/ StrayFile /\ UNCHANGED <<fvars, cvars, mvars, xvars, hvars, kvars, rvars, qvars, ivars>>
  \/ NextDay /\ UNCHANGED <<fvars, cvars, mvars, xvars, hvars, kvars, rvars, qvars, ivars>>
  \/ FindCall /\ UNCHANGED <<fvars, cvars, mvars, xvars, hvars, kvars, rvars, qvars, ivars>>

----------------------------------------------------------------------------
(***************************************************************************)
(* Two concurrent calls of download_file_in_chunks for one new             *)
(* (base_dir, file_id), statement by statement                             *)
(***************************************************************************)
Procs == {1, 2}
RaceDir == "d1"
RaceFile == "f1"

\* the body both calls are served, with or without a Content-Length, or a
\* request that fails
RaceServed ==
  {srv \in Served : srv.size \in {3, 4} /\ srv.fail \in {"none", "request"}}

NoFetch == [size |-> 0, has_length |-> FALSE, fail |-> "request", after |-> 0]
NoReturn == [ok |-> FALSE, count |-> -1]

\* what a call that fetched srv writes when it runs alone: its chunk files,
\* in order, and its chunk count
Plan(srv) == download_file_in_chunks(<<>>, RaceDir, RaceFile, "", "", srv)

RaceIdle ==
  /\ r_disk = <<>>
  /\ r_pc = [p \in Procs |-> "start"]
  /\ r_plan = [p \in Procs |-> NoFetch]
  /\ r_idx = [p \in Procs |-> 0]
  /\ r_ret = [p \in Procs |-> NoReturn]

\* mkdir, then "if first_chunk_path.exists(): return True, chunk_count, []"
RaceCheck(p) ==
  /\ r_pc[p] = "start"
  /\ r_disk' = MakeDir(r_disk, RaceDir, RaceFile)
  /\ IF first_chunk_exists(r_disk, RaceDir, RaceFile)
     THEN /\ r_pc' = [r_pc EXCEPT ![p] = "done"]
          /\ r_ret' = [r_ret EXCEPT ![p] =
                         [ok |-> TRUE,
                          count |-> count_existing_chunks(r_disk, RaceDir, RaceFile)]]
     ELSE /\ r_pc' = [r_pc EXCEPT ![p] = "request"]
          /\ r_ret' = r_ret
  /\ UNCHANGED <<r_plan, r_idx>>

\* requests.get(url, stream=True); raise_for_status()
RaceFetch(p) ==
  /\ r_pc[p] = "request"
  /\ \E srv \in RaceServed :
       IF srv.fail = "request"
       THEN /\ r_pc' = [r_pc EXCEPT ![p] = "done"]
            /\ r_ret' = [r_ret EXCEPT ![p] = [ok |-> FALSE, count |-> 0]]
            /\ r_plan' = r_plan
       ELSE /\ r_pc' = [r_pc EXCEPT ![p] = "write"]
            /\ r_plan' = [r_plan EXCEPT ![p] = srv]
            /\ r_ret' = r_ret
  /\ UNCHANGED <<r_disk, r_idx>>

\* (variant: a chunk file that exists is not opened again)
OpenExclusive(fs, name) == ~Exists(fs, name)

\* open(chunk_path, 'wb'): creates the file or truncates the one that exists
OpenForWrite(fs, name) == TRUE

\* one chunk file written: "with open(chunk_path, 'wb') as f: f.write(...)";
\* an open that fails ends the call through the inner except
RaceWrite(p) ==
  /\ r_pc[p] = "write"
  /\ r_idx[p] < Plan(r_plan[p]).last.count
  /\ LET name == PartName(RaceDir, RaceFile, r_idx[p])
     IN IF OpenForWrite(r_disk, name)
        THEN /\ r_disk' = WriteFile(r_disk, name, Plan(r_plan[p]).fs[name])
             /\ r_idx' = [r_idx EXCEPT ![p] = r_idx[p] + 1]
             /\ UNCHANGED <<r_pc, r_ret>>
        ELSE /\ r_pc' = [r_pc EXCEPT ![p] = "done"]
             /\ r_ret' = [r_ret EXCEPT ![p] = [ok |-> FALSE, count |-> r_idx[p]]]
             /\ UNCHANGED <<r_disk, r_idx>>
  /\ UNCHANGED r_plan

\* the sidecar, then "return True, chunk_index, error_messages"
RaceFinish(p) ==
  /\ r_pc[p] = "write"
  /\ r_idx[p] = Plan(r_plan[p]).last.count
  /\ r_disk' = WriteFile(r_disk, ExtName(RaceDir, RaceFile),
                         Plan(r_plan[p]).fs[ExtName(RaceDir, RaceFile)])
  /\ r_pc' = [r_pc EXCEPT ![p] = "done"]
  /\ r_ret' = [r_ret EXCEPT ![p] = [ok |-> TRUE, count |-> r_idx[p]]]
  /\ UNCHANGED <<r_plan, r_idx>>

RaceNext ==
  \/ (\E p \in Procs : RaceCheck(p))
       /\ UNCHANGED <<fvars, cvars, mvars, xvars, hvars, dvars, kvars, qvars, ivars>>
  \/ (\E p \in Procs : RaceFetch(p))
       /\ UNCHANGED <<fvars, cvars, mvars, xvars, hvars, dvars, kvars, qvars, ivars>>
  \/ (\E p \in Procs : RaceWrite(p))
       /\ UNCHANGED <<fvars, cvars, mvars, xvars, hvars, dvars, kvars, qvars, ivars>>
  \/ (\E p \in Procs : RaceFinish(p))
       /\ UNCHANGED <<fvars, cvars, mvars, xvars, hvars, dvars, kvars, qvars, ivars>>

----------------------------------------------------------------------------
(***************************************************************************)
(* Concurrent merge_chunks requests, statement by statement.  The chunks   *)
(* of every request are on disk and assemble to the declared hash; the     *)
(* requests of one hash name the file alike and arrive on one day.         *)
(***************************************************************************)
Requests == {1, 2, 3}
DedupHashes == {"h1", "h2"}

NoReply == [success |-> FALSE, exists |-> FALSE, file_id |-> 0, message |-> ""]

DedupIdle ==
  /\ q_records = <<>>
  /\ q_merged = {}
  /\ q_pc = [p \in Requests |-> "arrive"]
  /\ q_md5 = [p \in Requests |-> ""]
  /\ q_resp = [p \in Requests |-> NoReply]

\* FileInfo.objects.filter(md5=file_md5).first(): the id of the first record
\* with the hash, 0 when there is none
FirstWithMd5(recs, md5) ==
  IF \E i \in 1..Len(recs) : recs[i].md5 = md5
  THEN CHOOSE i \in 1..Len(recs) :
         recs[i].md5 = md5 /\ \A j \in 1..(i - 1) : recs[j].md5 # md5
  ELSE 0

\* md5 = models.CharField(..., unique=True): the INSERT of a hash the table
\* holds raises IntegrityError
UniqueViolation(recs, md5) == \E i \in 1..Len(recs) : recs[i].md5 = md5

\* data = json.loads(request.body); file_md5 = data.get('file_md5')
DedupArrive(p) ==
  /\ q_pc[p] = "arrive"
  /\ \E h \in DedupHashes : q_md5' = [q_md5 EXCEPT ![p] = h]
  /\ q_pc' = [q_pc EXCEPT ![p] = "lookup"]
  /\ UNCHANGED <<q_records, q_merged, q_resp>>

\* existing_file = FileInfo.objects.filter(md5=file_md5).first()
DedupLookup(p) ==
  /\ q_pc[p] = "lookup"
  /\ LET id == FirstWithMd5(q_records, q_md5[p])
     IN IF id # 0
        THEN /\ q_pc' = [q_pc EXCEPT ![p] = "done"]
             /\ q_resp' = [q_resp EXCEPT ![p] =
                  [success |-> TRUE, exists |-> TRUE, file_id |-> id,
                   message |-> "exists"]]
        ELSE /\ q_pc' = [q_pc EXCEPT ![p] = "assemble"]
             /\ q_resp' = q_resp
  /\ UNCHANGED <<q_records, q_merged, q_md5>>

\* the merged file is written at storage_dir/file_name and read back; the
\* hash matches
DedupAssemble(p) ==
  /\ q_pc[p] = "assemble"
  /\ q_merged' = q_merged \cup {q_md5[p]}
  /\ q_pc' = [q_pc EXCEPT ![p] = "remove"]
  /\ UNCHANGED <<q_records, q_md5, q_resp>>

\* os.remove(merged_file_path): FileNotFoundError when another request has
\* removed it, answered by the generic handler
DedupRemove(p) ==
  /\ q_pc[p] = "remove"
  /\ IF q_md5[p] \in q_merged
     THEN /\ q_merged' = q_merged \ {q_md5[p]}
          /\ q_pc' = [q_pc EXCEPT ![p] = "create"]
          /\ q_resp' = q_resp
     ELSE /\ q_merged' = q_merged
          /\ q_pc' = [q_pc EXCEPT ![p] = "done"]
          /\ q_resp' = [q_resp EXCEPT ![p] =
               [NoReply EXCEPT !.message = "merge_failed"]]
  /\ UNCHANGED <<q_records, q_md5>>

\* FileInfo.objects.create(...), status 'enable', the success response; an
\* IntegrityError is answered by the generic handler
DedupCreate(p) ==
  /\ q_pc[p] = "create"
  /\ IF UniqueViolation(q_records, q_md5[p])
     THEN /\ q_records' = q_records
          /\ q_resp' = [q_resp EXCEPT ![p] =
               [NoReply EXCEPT !.message = "merge_failed"]]
     ELSE /\ q_records' = Append(q_records, [md5 |-> q_md5[p], status |-> "enable"])
          /\ q_resp' = [q_resp EXCEPT ![p] =
               [success |-> TRUE, exists |-> FALSE,
                file_id |-> Len(q_records) + 1, message |-> "uploaded"]]
  /\ q_pc' = [q_pc EXCEPT ![p] = "done"]
  /\ UNCHANGED <<q_merged, q_md5>>

DedupNext ==
  \/ (\E p \in Requests : DedupArrive(p))
       /\ UNCHANGED <<fvars, cvars, mvars, xvars, hvars, dvars, kvars, rvars, ivars>>
  \/ (\E p \in Requests : DedupLookup(p))
       /\ UNCHANGED <<fvars, cvars, mvars, xvars, hvars, dvars, kvars, rvars, ivars>>
  \/ (\E p \in Requests : DedupAssemble(p))
       /\ UNCHANGED <<fvars, cvars, mvars, xvars, hvars, dvars, kvars, rvars, ivars>>
  \/ (\E p \in Requests : DedupRemove(p))
       /\ UNCHANGED <<fvars, cvars, mvars, xvars, hvars, dvars, kvars, rvars, ivars>>
  \/ (\E p \in Requests : DedupCreate(p))
       /\ UNCHANGED <<fvars, cvars, mvars, xvars, hvars, dvars, kvars, rvars, ivars>>

----------------------------------------------------------------------------
(***************************************************************************)
(* konachan.views.download_image: the three variants of an image           *)
(***************************************************************************)
\* download_tasks, in order: the subdirectory of each
download_tasks == <<"preview", "sample", "jpeg">>

ImageMd5 == "f1"
\* the values of download_status: the default, and the one download_image sets
NotDownloaded == "not_downloaded"
DownloadedStatus == "downloaded"

\* what the request for a variant can meet
ImageServed ==
  {srv \in Served :
     /\ srv.size = 4
     /\ srv.has_length
     /\ \/ srv.fail \in {"none", "request"}
        \/ srv.fail = "stream" /\ srv.after = 1}

ImageIdle ==
  /\ i_status = NotDownloaded
  /\ i_disk = <<>>
  /\ i_pc = "idle"
  /\ i_outcomes = <<>>
  /\ i_success = 0
  /\ i_failed = 0
  /\ i_requests = 0
  /\ i_marked = FALSE
  /\ i_resp = ""

\* the mark is in image.download_status, or "success" in its lower case
AlreadyDownloaded(status) == status = DownloadedStatus

\* a POST for the image: the early return, or the start of the task loop
ImageEnter ==
  /\ i_pc \in {"idle", "done"}
  /\ i_marked' = AlreadyDownloaded(i_status)
  /\ i_outcomes' = <<>>
  /\ i_success' = 0
  /\ i_failed' = 0
  /\ i_requests' = 0
  /\ IF AlreadyDownloaded(i_status)
     THEN i_pc' = "done" /\ i_resp' = "already"
     ELSE i_pc' = "task" /\ i_resp' = ""
  /\ UNCHANGED <<i_status, i_disk>>

\* one iteration of "for url_field, subdir in download_tasks": the URL is
\* empty, or the body of the try raises, or download_file_in_chunks returns
ImageTask ==
  /\ i_pc = "task"
  /\ LET subdir == download_tasks[Len(i_outcomes) + 1]
         next == IF Len(i_outcomes) + 1 = Len(download_tasks) THEN "finish" ELSE "task"
     IN \/ /\ \E kind \in {"no_url", "raised"} : i_outcomes' = Append(i_outcomes, kind)
           /\ i_failed' = i_failed + 1
           /\ i_pc' = next
           /\ UNCHANGED <<i_success, i_disk, i_requests>>
        \/ \E srv \in ImageServed :
             LET r == download_file_in_chunks(i_disk, subdir, ImageMd5, "", "", srv)
             IN /\ i_disk' = r.fs
                /\ i_requests' = i_requests + (IF r.last.requested THEN 1 ELSE 0)
                /\ i_outcomes' = Append(i_outcomes, IF r.last.ok THEN "ok" ELSE "failed")
                /\ i_success' = i_success + (IF r.last.ok THEN 1 ELSE 0)
                /\ i_failed' = i_failed + (IF r.last.ok THEN 0 ELSE 1)
                /\ i_pc' = next
  /\ UNCHANGED <<i_status, i_marked, i_resp>>

\* (variant: the record is marked whatever the tasks returned)
ShouldMarkAlways(success_count) == TRUE

\* if success_count > 0:
ShouldMark(success_count) == success_count > 0

\* after the loop: mark the record and answer
ImageFinish ==
  /\ i_pc = "finish"
  /\ IF ShouldMark(i_success)
     THEN i_status' = DownloadedStatus /\ i_resp' = "completed"
     ELSE i_status' = i_status /\ i_resp' = "all_failed"
  /\ i_pc' = "done"
  /\ UNCHANGED <<i_disk, i_outcomes, i_success, i_failed, i_requests, i_marked>>

ImageNext ==
  \/ ImageEnter /\ UNCHANGED <<fvars, cvars, mvars, xvars, hvars, dvars, kvars, rvars, qvars>>
  \/ ImageTask /\ UNCHANGED <<fvars, cvars, mvars, xvars, hvars, dvars, kvars, rvars, qvars>>
  \/ ImageFinish /\ UNCHANGED <<fvars, cvars, mvars, xvars, hvars, dvars, kvars, rvars, qvars>>

----------------------------------------------------------------------------
(***************************************************************************)
(* Specifications                                                          *)
(***************************************************************************)
InitFetch == FetchInit /\ ChunkInit /\ MergeIdle /\ CipherIdle /\ MediaIdle /\ FindIdle /\ KeyIdle
  /\ RaceIdle /\ DedupIdle /\ ImageIdle

SpecFetch == InitFetch /\ [][FetchNext]_vars

\* The loop is sequential code: every step that can run does run.
SpecFetchFair == SpecFetch /\ WF_vars(FetchNext)

InitChunk == FetchIdle /\ ChunkInit /\ MergeIdle /\ CipherIdle /\ MediaIdle /\ FindIdle /\ KeyIdle
  /\ RaceIdle /\ DedupIdle /\ ImageIdle

SpecChunk == InitChunk /\ [][ChunkNext]_vars

InitGaps == FetchIdle /\ GapsInit /\ MergeIdle /\ CipherIdle /\ MediaIdle /\ FindIdle /\ KeyIdle
  /\ RaceIdle /\ DedupIdle /\ ImageIdle

SpecGaps == InitGaps /\ [][ChunkNext]_vars

InitMerge == FetchIdle /\ ChunkInit /\ MergeInit /\ CipherIdle /\ MediaIdle /\ FindIdle /\ KeyIdle
  /\ RaceIdle /\ DedupIdle /\ ImageIdle

SpecMerge == InitMerge /\ [][MergeNext]_vars

SpecLookup == InitChunk /\ [][LookupNext]_vars

InitMedia == FetchIdle /\ ChunkInit /\ MergeInit /\ CipherIdle /\ MediaIdle /\ FindIdle /\ KeyIdle
  /\ RaceIdle /\ DedupIdle /\ ImageIdle

SpecMedia == InitMedia /\ [][MediaNext]_vars

SpecLifecycle == InitMerge /\ [][LifecycleNext]_vars

SpecCalendar == InitMerge /\ [][CalendarNext]_vars

InitFind == FetchIdle /\ ChunkInit /\ MergeIdle /\ CipherIdle /\ MediaIdle /\ FindIdle /\ KeyIdle
  /\ RaceIdle /\ DedupIdle /\ ImageIdle

SpecFind == InitFind /\ [][FindNext]_vars

InitKey == FetchIdle /\ ChunkInit /\ MergeIdle /\ CipherIdle /\ MediaIdle /\ FindIdle /\ KeyIdle
  /\ RaceIdle /\ DedupIdle /\ ImageIdle

SpecKey == InitKey /\ [][KeyNext]_vars

\* The function is sequential code: a statement that can run does run.
SpecKeyFair == SpecKey /\ WF_vars(KeyNext)

InitRace == FetchIdle /\ ChunkInit /\ MergeIdle /\ CipherIdle /\ MediaIdle /\ FindIdle /\ KeyIdle
  /\ RaceIdle /\ DedupIdle /\ ImageIdle

SpecRace == InitRace /\ [][RaceNext]_vars

InitDedup == FetchIdle /\ ChunkInit /\ MergeIdle /\ CipherIdle /\ MediaIdle /\ FindIdle /\ KeyIdle
  /\ RaceIdle /\ DedupIdle /\ ImageIdle

SpecDedup == InitDedup /\ [][DedupNext]_vars

InitImage == FetchIdle /\ ChunkInit /\ MergeIdle /\ CipherIdle /\ MediaIdle /\ FindIdle /\ KeyIdle
  /\ RaceIdle /\ DedupIdle /\ ImageIdle

SpecImage == InitImage /\ [][ImageNext]_vars

InitCipher == FetchIdle /\ ChunkInit /\ MergeIdle /\ CipherIdle /\ MediaIdle /\ FindIdle /\ KeyIdle
  /\ RaceIdle /\ DedupIdle /\ ImageIdle

SpecCipher == InitCipher /\ [][CipherNext]_vars

----------------------------------------------------------------------------
(***************************************************************************)
(* Properties of the page fetcher                                          *)
(***************************************************************************)
Is403(r) == r.net = "ok" /\ r.status = 403
Is5xx(r) == r.net = "ok" /\ r.status >= 500
IsTimeout(r) == r.net = "timeout"
IsGood(r) == r.net = "ok" /\ r.status = 200 /\ r.body = "valid" /\ r.save = "ok"
\* a 4xx other than 403, or a 200 whose body does not decode as JSON
NotRetriedClass(r) ==
  /\ r.net = "ok"
  /\ \/ (r.status >= 400 /\ r.status < 500 /\ r.status # 403)
     \/ (r.status = 200 /\ r.body = "badjson")

\* C1: in konachan get_data an attempt answered with 403 invalidates the
\* HTTP client, the same page is retried (while attempts remain) and the
\* retry uses a newly created client; the attempts of a page never exceed
\* MAX_RETRIES.
C1_Reset403 ==
  site = "konachan" =>
    /\ Len(hist) <= MAX_RETRIES
    /\ \A i \in 1..Len(hist) :
         Is403(hist[i]) =>
           /\ (i = Len(hist)) => http_client = 0
           /\ (i = Len(hist) /\ i < MAX_RETRIES) => fpc = "loop"
           /\ (i < Len(hist)) => clients_used[i + 1] > clients_used[i]

\* C2: an attempt answered with a 5xx status is retried: unless it was the
\* MAX_RETRIES-th attempt, the fetcher sleeps BASE_DELAY * 2^(attempt-1)
\* and stays in the retry loop of the same page, which is not counted as
\* failed at that point.
C2_Retry5xx ==
  \A i \in 1..Len(hist) :
    (Is5xx(hist[i]) /\ i < MAX_RETRIES) =>
      /\ Len(sleeps) >= i
      /\ sleeps[i] = BASE_DELAY * (2 ^ (i - 1))
      /\ (i = Len(hist)) => (fpc = "loop" /\ page_failed = 0)

ThreeTimeoutsThenGood ==
  /\ Len(hist) >= 4
  /\ \A i \in 1..3 : IsTimeout(hist[i])
  /\ IsGood(hist[4])

\* C3: three timeouts followed by a good response: the page succeeds on
\* the 4th attempt and the sleeps between the attempts were exactly
\* BASE_DELAY, 2*BASE_DELAY, 4*BASE_DELAY, in that order.
C3_BackoffSchedule ==
  ThreeTimeoutsThenGood =>
    /\ Len(hist) = 4
    /\ fpc # "loop"
    /\ page_success
    /\ page_failed = 0
    /\ sleeps = <<BASE_DELAY, 2 * BASE_DELAY, 4 * BASE_DELAY>>

C3_Witness ==
  /\ ThreeTimeoutsThenGood
  /\ fpc = "done"
  /\ fresult.success >= 1

\* C4: an attempt answered with a 4xx other than 403, or with a body that
\* is not JSON, is the last attempt of its page: no further request, no
\* backoff sleep after it, and the page is counted as failed exactly once
\* (also after the accounting that follows the loop).
C4_NoRetry ==
  \A i \in 1..Len(hist) :
    NotRetriedClass(hist[i]) =>
      /\ i = Len(hist)
      /\ fpc # "loop"
      /\ Len(sleeps) = i - 1
      /\ ~page_success
      /\ page_failed = 1

C4_Witness ==
  /\ fpc = "done"
  /\ Len(hist) >= 2
  /\ NotRetriedClass(hist[Len(hist)])
  /\ fresult.failed >= 1

\* C5: a page whose retries are exhausted is counted as failed and the
\* batch goes on: for valid arguments the call always returns, and when
\* it returns every page of [start_page, end_page] was requested at least
\* once.
C5_BatchContinues ==
  /\ [](fpc \in {"paged", "done"} /\ ~page_success /\ retry_count >= MAX_RETRIES
          => page_failed >= 1 /\ page_num \in exhausted)
  /\ [](fpc = "done" /\ ValidArgs
          => fresult # NoResult /\ attempted = start_page..end_page)
  /\ (ValidArgs ~> (fpc = "done"))

C5_Witness ==
  /\ fpc = "done"
  /\ start_page \in exhausted
  /\ end_page > start_page
  /\ end_page \in attempted
  /\ page_success

----------------------------------------------------------------------------
(***************************************************************************)
(* Properties of the chunk store                                           *)
(***************************************************************************)
\* the chunk files of a set that are on disk
ChunkFilesOf(fs, d, f) ==
  {name \in DOMAIN fs : name[1] = d /\ name[2] = f /\ name[3] = "part"}

\* the step is a call of download_file_in_chunks for (d, f)
IsDownloadOf(d, f) == dl_last' # NoDownload /\ dl_last'.dir = d /\ dl_last'.fid = f

\* C6: a call of download_file_in_chunks that finds part0 of its
\* (base_dir, file_id) on disk issues no HTTP request, leaves every file
\* as it is and returns success with the number of chunk files on disk.
C6_SecondCallSkips ==
  [][\A d \in Dirs, f \in FileIds :
       (IsDownloadOf(d, f) /\ Exists(disk, PartName(d, f, 0))) =>
         /\ ~dl_last'.requested
         /\ disk' = disk
         /\ dl_last'.ok
         /\ dl_last'.count = Cardinality(ChunkFilesOf(disk, d, f))]_vars

C6_Witness ==
  /\ dl_last # NoDownload
  /\ <<dl_last.dir, dl_last.fid>> \in DOMAIN stored
  /\ ~dl_last.requested
  /\ dl_last.ok
  /\ dl_last.count >= 2

\* C7: after a successful download of a payload under a fresh
\* (base_dir, file_id), assemble_chunks returns exactly the payload, for
\* every payload size including 0.
C7_RoundTrip ==
  (as_last # NoAssemble /\ <<as_last.dir, as_last.fid>> \in DOMAIN stored) =>
    /\ as_last.ok
    /\ as_last.data = stored[<<as_last.dir, as_last.fid>>]

\* the last call fetched the response headers and chose a chunk size
ChoseChunkSize == dl_last # NoDownload /\ dl_last.policy # "none"

SplitSized ==
  /\ dl_last.policy = "split"
  /\ dl_last.chunk_size * CHUNK_COUNT_SMALL >= dl_last.size
  /\ (dl_last.chunk_size - 1) * CHUNK_COUNT_SMALL < dl_last.size

FixedSized == dl_last.policy = "fixed" /\ dl_last.chunk_size = CHUNK_SIZE_SMALL

\* C8 (as stated): the small-file split, with target ceil(size /
\* CHUNK_COUNT_SMALL), is used exactly when the size is known and below
\* CHUNK_SIZE_THRESHOLD; otherwise the fixed CHUNK_SIZE_SMALL is used.
C8_PolicyAsStated ==
  ChoseChunkSize =>
    IF dl_last.has_length /\ dl_last.size < CHUNK_SIZE_THRESHOLD
    THEN SplitSized ELSE FixedSized

\* C8 (amended): the small-file split is used exactly when the size is
\* known, not zero and below CHUNK_SIZE_THRESHOLD; a size that is unknown,
\* zero or at least the threshold gets the fixed CHUNK_SIZE_SMALL.
C8_Policy ==
  ChoseChunkSize =>
    IF dl_last.has_length /\ dl_last.size > 0 /\ dl_last.size < CHUNK_SIZE_THRESHOLD
    THEN SplitSized ELSE FixedSized

C8_Witness ==
  /\ ChoseChunkSize
  /\ dl_last.has_length
  /\ dl_last.size = CHUNK_SIZE_THRESHOLD
  /\ dl_last.policy = "fixed"
  /\ dl_last.ok

\* C9: a successfully stored payload whose size is known and below the
\* threshold is stored as exactly CHUNK_COUNT_SMALL chunk files (stated
\* for the non-empty payloads, which the small-file split applies to).
C9_FixedCount ==
  (ChoseChunkSize /\ dl_last.ok /\ dl_last.has_length
     /\ dl_last.size > 0 /\ dl_last.size < CHUNK_SIZE_THRESHOLD) =>
    /\ dl_last.count = CHUNK_COUNT_SMALL
    /\ Cardinality(ChunkFilesOf(disk, dl_last.dir, dl_last.fid)) = CHUNK_COUNT_SMALL

\* ---- lookup over candidate directories ----
\* the first candidate that holds the chunk set (its part0); "" if none
RECURSIVE FirstHoldingSet(_, _, _)
FirstHoldingSet(fs, date_dirs, f) ==
  IF date_dirs = <<>> THEN ""
  ELSE IF Exists(fs, PartName(date_dirs[1], f, 0)) THEN date_dirs[1]
       ELSE FirstHoldingSet(fs, Tail(date_dirs), f)

\* the chunk files of (d, f) from index n on, joined in index order
RECURSIVE JoinParts(_, _, _, _)
JoinParts(fs, d, f, n) ==
  IF Exists(fs, PartName(d, f, n))
  THEN fs[PartName(d, f, n)] \o JoinParts(fs, d, f, n + 1)
  ELSE <<>>

\* C15: assemble_chunks with date_dirs returns the payload of the first
\* candidate directory, in list order, that contains the chunk set, and
\* fails with ChunkError when no candidate contains it.
C15_FirstCandidate ==
  (as_last # NoAssemble /\ as_last.date_dirs # <<>>) =>
    LET h == FirstHoldingSet(disk, as_last.date_dirs, as_last.fid)
    IN IF h = "" THEN ~as_last.ok
       ELSE /\ as_last.ok
            /\ as_last.dir = h
            /\ as_last.data = JoinParts(disk, h, as_last.fid, 0)

\* a sidecar that is present and holds a short leading-dot string
ValidSidecar(fs, name) == Exists(fs, name) /\ fs[name] \in ValidExts

\* C16: the extension assemble_chunks returns is that of a valid
\* {fileId}.ext sidecar if there is one, else that of a valid legacy sidecar
\* {fileId}, else ".jpg"; and whatever the sidecars hold, a directory with
\* the chunk set assembles.
C16_ExtensionOrder ==
  (as_last # NoAssemble /\ as_last.dir # ""
     /\ Exists(disk, PartName(as_last.dir, as_last.fid, 0))) =>
    /\ as_last.ok
    /\ as_last.ext =
         IF ValidSidecar(disk, ExtName(as_last.dir, as_last.fid))
         THEN disk[ExtName(as_last.dir, as_last.fid)]
         ELSE IF ValidSidecar(disk, LegacyName(as_last.dir, as_last.fid))
              THEN disk[LegacyName(as_last.dir, as_last.fid)]
              ELSE ".jpg"

\* ---- a download that failed after it wrote chunk files ----
\* the previous call requested the body for a target, wrote chunk files and
\* returned failure, and this step is a call for the same target that
\* returns success
SuccessAfterFailure ==
  /\ dl_last.requested
  /\ ~dl_last.ok
  /\ dl_last.count > 0
  /\ dl_last'.ok
  /\ dl_last'.dir = dl_last.dir
  /\ dl_last'.fid = dl_last.fid

\* C19: a download that failed after writing chunk files leaves a set that no
\* later call of download_file_in_chunks reports as a stored payload: when a
\* call for the same (base_dir, file_id) returns success after the failure,
\* the chunk set assembles to the complete payload that was being served.
C19_RecoverablePartial ==
  [][SuccessAfterFailure =>
       LET a == assemble_chunks(disk', dl_last'.dir, dl_last'.fid, <<>>)
       IN /\ a.ok
          /\ a.data = Payload(dl_last.size)]_vars

----------------------------------------------------------------------------
(***************************************************************************)
(* Upload path properties                                                  *)
(***************************************************************************)
\* the record registered first for a hash (0 when there is none)
FirstRegistered(recs, md5) ==
  LET ids == IdsByMd5(recs, md5)
  IN IF ids = {} THEN 0 ELSE CHOOSE i \in ids : \A j \in ids : i <= j

\* this step is a merge_chunks request declaring a hash that is registered
MergeOfRegistered ==
  /\ m_last'.op = "merge"
  /\ m_req'.file_md5 # NoHash
  /\ FirstRegistered(records, m_req'.file_md5) # 0

ShortCircuited ==
  /\ m_last'.success
  /\ m_last'.exists
  /\ m_last'.file_id = FirstRegistered(records, m_req'.file_md5)
  /\ records' = records
  /\ mdisk' = mdisk

\* C10 as stated: every merge_chunks request declaring a registered hash
\* returns exists=true with the first record's id, creates no record and
\* writes no file.
C10_AnyRequest == [][MergeOfRegistered => ShortCircuited]_vars

\* C10: a merge_chunks request that declares a registered hash and carries a
\* file name and a non-empty chunk list returns exists=true with the first
\* record's id, creates no record and writes no file; one that lacks the file
\* name or the chunk list is refused as incomplete, also without creating a
\* record or writing a file.
C10_DedupShortCircuit ==
  [][MergeOfRegistered =>
       IF m_req'.file_name # "" /\ m_req'.chunks # <<>>
       THEN ShortCircuited
       ELSE /\ ~m_last'.success
            /\ m_last'.message = "missing_params"
            /\ records' = records
            /\ mdisk' = mdisk]_vars

\* a request with another file name than the registered record's was answered
\* with that record
C10_Witness ==
  /\ m_last.op = "merge"
  /\ m_last.exists
  /\ m_last.file_id \in 1..Len(records)
  /\ records[m_last.file_id].md5 = m_req.file_md5
  /\ records[m_last.file_id].name # m_req.file_name

\* ---- merge of a complete request for a hash that is not registered ----
\* this step is such a merge_chunks request
MergeOfNew ==
  /\ m_last'.op = "merge"
  /\ m_req'.file_md5 # NoHash
  /\ m_req'.file_name # ""
  /\ m_req'.chunks # <<>>
  /\ FirstRegistered(records, m_req'.file_md5) = 0

\* the chunk file a declared chunk refers to
DeclaredPath(req, i) == StoragePath(today, req.file_md5, req.chunks[i].chunk_uuid)

AllDeclaredPresent(fs, req) ==
  \A i \in 1..Len(req.chunks) : Exists(fs, DeclaredPath(req, i))

\* the positions of the request's chunk list in ascending chunk_index
Ascending(req) ==
  CHOOSE p \in [1..Len(req.chunks) -> 1..Len(req.chunks)] :
    /\ \A i, j \in 1..Len(req.chunks) : i # j => p[i] # p[j]
    /\ \A i, j \in 1..Len(req.chunks) :
         i < j => req.chunks[p[i]].chunk_index < req.chunks[p[j]].chunk_index

RECURSIVE JoinFiles(_, _, _, _)
JoinFiles(fs, req, p, i) ==
  IF i > Len(req.chunks) THEN <<>>
  ELSE fs[DeclaredPath(req, p[i])] \o JoinFiles(fs, req, p, i + 1)

\* the bytes of the declared chunk files, joined in ascending chunk_index
AscendingBytes(fs, req) == JoinFiles(fs, req, Ascending(req), 1)

\* the per-piece chunk files: those named by a chunk uuid
ChunkFilesUnchanged ==
  \A name \in DOMAIN mdisk :
    name[3] \in Uuids => name \in DOMAIN mdisk' /\ mdisk'[name] = mdisk[name]

MergedPath(req) == StoragePath(today, req.file_md5, req.file_name)

\* C11: when every declared chunk is present and the MD5 of the merged bytes
\* differs from the declared hash, merge_chunks rejects the request, creates
\* no record, leaves no merged file and leaves every chunk file unchanged.
C11_HashMismatch ==
  [][(/\ MergeOfNew
      /\ AllDeclaredPresent(mdisk, m_req')
      /\ MD5(AscendingBytes(mdisk, m_req')) # m_req'.file_md5)
     => /\ ~m_last'.success
        /\ m_last'.message = "md5_mismatch"
        /\ records' = records
        /\ ~Exists(mdisk', MergedPath(m_req'))
        /\ ChunkFilesUnchanged]_vars

\* a request whose chunks were all uploaded was rejected for its hash
C11_Witness ==
  /\ m_last.op = "merge"
  /\ m_last.message = "md5_mismatch"
  /\ AllDeclaredPresent(mdisk, m_req)
  /\ MD5(AscendingBytes(mdisk, m_req)) # m_req.file_md5
  /\ records = <<>>

\* C12: merge_chunks joins the declared chunks in ascending chunk_index,
\* whatever the order of the request's list or of the uploads: the request
\* is registered exactly when every declared chunk file is present and the
\* bytes joined in that order have the declared hash, and the record lists
\* the chunks in that order; when a declared chunk file is absent the request
\* fails and no record is created.
C12_MergeOrder ==
  [][MergeOfNew =>
       IF AllDeclaredPresent(mdisk, m_req')
       THEN IF MD5(AscendingBytes(mdisk, m_req')) = m_req'.file_md5
            THEN /\ m_last'.success
                 /\ Len(records') = Len(records) + 1
                 /\ records'[Len(records')].chunks =
                      [i \in 1..Len(m_req'.chunks) |->
                         m_req'.chunks[Ascending(m_req')[i]].chunk_uuid]
            ELSE ~m_last'.success /\ records' = records
       ELSE /\ ~m_last'.success
            /\ m_last'.message = "chunk_missing"
            /\ records' = records]_vars

\* a request that lists its chunks in descending chunk_index was registered
C12_Witness ==
  /\ m_last.op = "merge"
  /\ m_last.message = "uploaded"
  /\ Len(m_req.chunks) = 2
  /\ m_req.chunks[1].chunk_index > m_req.chunks[2].chunk_index
  /\ records[m_last.file_id].chunks = <<"u1", "u2">>

----------------------------------------------------------------------------
FromZero(data) ==
  [k \in 1..Len(data) |->
     Xor(data[k], get_encryption_key[((k - 1) % KEY_LEN) + 1])]

\* C14: encryption is deterministic and keeps no state between calls: the
\* result of encrypt_data is the base64 text of the input XORed with the key
\* from key index 0, so encrypting an input again gives the same text, and
\* every segment convert_hls_api encrypts is XORed from key index 0 as well.
C14_Deterministic ==
  /\ c_token = b64encode(FromZero(c_plain))
  /\ (c_first # NoFirst /\ c_first.plain = c_plain) => c_first.token = c_token
  /\ \A j \in 1..Len(c_segs) : c_segs[j] = FromZero(c_segs_in[j])
  /\ \A i, j \in 1..Len(c_segs) : c_segs_in[i] = c_segs_in[j] => c_segs[i] = c_segs[j]

\* the same one-byte input was encrypted again after other inputs
C14_Witness ==
  /\ c_first # NoFirst
  /\ c_first.plain = c_plain
  /\ Len(c_plain) = 1
  /\ c_pos = 1

----------------------------------------------------------------------------
(***************************************************************************)
(* Properties of the operations on registered records                      *)
(***************************************************************************)
\* a step of convert_hls_api that created its temporary input file
HlsStarted ==
  /\ m_last'.op = "hls"
  /\ hls_runs' = hls_runs + 1

\* C17: on every exit path of convert_hls_api after the temporary input file
\* was created, the temporary file is gone when the handler returns, and on
\* every failing path the record's hls_addr stays unset.
C17_HlsCleanup ==
  [][/\ HlsStarted => tmpfiles' = {}
     /\ (m_last'.op = "hls" /\ ~m_last'.success) => records' = records
     /\ (HlsStarted /\ ~m_last'.success) =>
          records'[m_last'.file_id].hls_addr = NoAddr]_vars

\* the transcoder timed out on its first segment: the segment stays on disk,
\* the temporary input does not, the record has no HLS reference
C17_Witness ==
  /\ m_last.op = "hls"
  /\ m_last.message = "timeout"
  /\ hls_runs > 0
  /\ tmpfiles = {}
  /\ records[m_last.file_id].hls_addr = NoAddr
  /\ Exists(mdisk, HlsName(get_file_storage_dir(records[m_last.file_id]),
                           "ts", hls_runs, 1))

\* a step of merge_chunks whose payload passes the verification
MergeVerified ==
  /\ MergeOfNew
  /\ AllDeclaredPresent(mdisk, m_req')
  /\ MD5(AscendingBytes(mdisk, m_req')) = m_req'.file_md5

ListedChunkMissing ==
  /\ m_last'.file_id \in 1..Len(records)
  /\ \E i \in 1..Len(get_file_chunks(records[m_last'.file_id])) :
       ~Exists(mdisk, Append(get_file_storage_dir(records[m_last'.file_id]),
                             get_file_chunks(records[m_last'.file_id])[i]))

\* the step assembled, or set out to assemble, the payload of a record
AssemblingStep ==
  \/ HlsStarted
  \/ m_last'.op = "content"
  \/ m_last'.op = "thumb" /\ IsMedia(records[m_last'.file_id].name)

\* C20: when a chunk listed for a record is missing on disk, an operation
\* that assembles the record's payload fails and publishes nothing made from
\* the payload with the missing chunk skipped; merge_chunks fails when a
\* declared chunk is missing.
C20_MissingChunkFatal ==
  [][/\ (ListedChunkMissing /\ AssemblingStep) =>
          /\ ~m_last'.success
          /\ records' = records
     /\ (MergeOfNew /\ ~AllDeclaredPresent(mdisk, m_req')) =>
          /\ ~m_last'.success
          /\ records' = records]_vars

----------------------------------------------------------------------------
(***************************************************************************)
(* Properties of the lookup among the date partitions                      *)
(***************************************************************************)
\* the partitions that hold the target
Holders(f, subdir) ==
  {date \in PartitionNames : TargetDir(date, f, subdir) \in d_tree}

Latest(S) == CHOOSE x \in S : \A y \in S : y <= x

\* C21: find_file_in_date_dirs returns today's partition directory of the
\* file when it exists, else the directory in the latest partition that
\* holds the file, else None; whatever the order of the directory listing.
C21_FindLatest ==
  d_call # NoFind =>
    d_found =
      IF d_now \in Holders(d_call.file_id, d_call.subdir)
      THEN TargetDir(d_now, d_call.file_id, d_call.subdir)
      ELSE IF Holders(d_call.file_id, d_call.subdir) = {} THEN NotFound
      ELSE TargetDir(Latest(Holders(d_call.file_id, d_call.subdir)),
                     d_call.file_id, d_call.subdir)

\* two earlier partitions hold the subdirectory, today's does not, the
\* listing was not in descending order, and the later of the two was found
C21_Witness ==
  /\ d_call # NoFind
  /\ d_call.subdir = "preview"
  /\ ~d_call.listed_desc
  /\ d_now \notin Holders(d_call.file_id, d_call.subdir)
  /\ Cardinality(Holders(d_call.file_id, d_call.subdir)) = 2
  /\ d_found = TargetDir(d_now - 1, d_call.file_id, d_call.subdir)

----------------------------------------------------------------------------
(***************************************************************************)
(* Page fetcher: responses that are logged as warnings                     *)
(***************************************************************************)
\* a 200 response the fetcher logs a warning about: empty body, or a
\* Content-Type that is not JSON
Warned(r) ==
  /\ r.net = "ok"
  /\ r.status = 200
  /\ (r.body = "empty" \/ ~r.json_type)

\* C22 as stated: a response with an empty body or a non-JSON Content-Type
\* fails its page only through a failure of the JSON parsing.
C22_WarningOnly ==
  \A i \in 1..Len(hist) :
    (Warned(hist[i]) /\ TryBody(site, hist[i]).type = "ValueError") =>
      RaisedBy(site, hist[i]) = "json"

\* C22, amended: a non-JSON Content-Type is only logged: the page succeeds
\* when the body is valid and fails through the JSON parsing when it is
\* not; an empty body is logged and fails the page at once, before any
\* parsing, without a retry.
C22_WarningThenParse ==
  \A i \in 1..Len(hist) :
    Warned(hist[i]) =>
      /\ i = Len(hist)
      /\ fpc # "loop"
      /\ Len(sleeps) = i - 1
      /\ (~hist[i].json_type /\ hist[i].body = "valid") =>
           /\ RaisedBy(site, hist[i]) = ""
           /\ page_success
           /\ page_failed = 0
      /\ (~hist[i].json_type /\ hist[i].body = "badjson") =>
           /\ RaisedBy(site, hist[i]) = "json"
           /\ ~page_success
           /\ page_failed = 1
      /\ hist[i].body = "empty" =>
           /\ RaisedBy(site, hist[i]) = "empty"
           /\ ~page_success
           /\ page_failed = 1

\* a page whose valid body came with a non-JSON Content-Type was counted as
\* a success in the returned statistics
C22_Witness ==
  /\ fpc = "done"
  /\ Len(hist) = 1
  /\ ~hist[1].json_type
  /\ hist[1].body = "valid"
  /\ page_success
  /\ fresult.success >= 1

----------------------------------------------------------------------------
(***************************************************************************)
(* Upload path: what the responses disclose                                *)
(***************************************************************************)
\* C23: no response of the file API, success or error, carries a filesystem
\* path of the server.
C23_NoPathInResponse == m_last.paths = {}

----------------------------------------------------------------------------
(***************************************************************************)
(* Key derivation properties                                               *)
(***************************************************************************)
\* the first n bytes of the secret repeated cyclically
Cyclic(secret, n) == [i \in 1..n |-> secret[((i - 1) % Len(secret)) + 1]]

\* C24: for a secret of any length get_encryption_key terminates and
\* returns exactly KEY_LEN bytes, the secret repeated cyclically and cut at
\* KEY_LEN; the result depends on the secret alone.
C24_KeyDerivation ==
  /\ [](k_pc = "done" =>
          /\ Len(k_result) = KEY_LEN
          /\ k_result = Cyclic(k_secret, KEY_LEN))
  /\ (k_pc = "loop" ~> k_pc = "done")

\* the key of a secret longer than KEY_LEN is its first KEY_LEN bytes
C24_Witness ==
  /\ k_pc = "done"
  /\ Len(k_secret) > KEY_LEN
  /\ k_result = SubSeq(k_secret, 1, KEY_LEN)

----------------------------------------------------------------------------
(***************************************************************************)
(* Soft delete                                                             *)
(***************************************************************************)
\* a step of file_delete_api that returned success
DeleteDone ==
  /\ m_last'.op = "delete"
  /\ m_last'.success

\* C25: file_delete_api removes every chunk file of the record and keeps
\* the record, with status 'deleted', delete_time set and hls_addr cleared;
\* the thumbnail file and the thumbnail reference stay as they were, and so
\* do the other records.
C25_SoftDelete ==
  [][DeleteDone =>
       LET id == m_last'.file_id
           storage == get_file_storage_dir(records[id])
       IN /\ \A i \in 1..Len(records[id].chunks) :
               ~Exists(mdisk', Append(storage, records[id].chunks[i]))
          /\ Len(records') = Len(records)
          /\ \A j \in 1..Len(records) : j # id => records'[j] = records[j]
          /\ records'[id].status = "deleted"
          /\ records'[id].delete_time # ""
          /\ records'[id].hls_addr = NoAddr
          /\ records'[id].md5 = records[id].md5
          /\ records'[id].name = records[id].name
          /\ records'[id].thumbnail_addr = records[id].thumbnail_addr
          /\ \A t \in {ClientThumbName, ServerThumbName} :
               /\ Exists(mdisk', Append(storage, t)) = Exists(mdisk, Append(storage, t))
               /\ Exists(mdisk, Append(storage, t)) =>
                    mdisk'[Append(storage, t)] = mdisk[Append(storage, t)]]_vars

\* a record with both chunk files and a thumbnail was deleted: the chunk
\* files are gone, the thumbnail is there
C25_Witness ==
  /\ m_last.op = "delete"
  /\ m_last.success
  /\ records[m_last.file_id].status = "deleted"
  /\ records[m_last.file_id].thumbnail_addr # ""
  /\ Exists(mdisk, Append(get_file_storage_dir(records[m_last.file_id]),
                          records[m_last.file_id].thumbnail_addr))
  /\ \A u \in Uuids :
       ~Exists(mdisk, Append(get_file_storage_dir(records[m_last.file_id]), u))

----------------------------------------------------------------------------
(***************************************************************************)
(* Concurrent downloads of one new (base_dir, file_id)                     *)
(***************************************************************************)
\* C26: the existence check of download_file_in_chunks is not atomic with
\* the writes: a call that passed the check fetches, and then writes every
\* chunk file of its own fetch whatever the other call has written since,
\* so that two calls for one new (base_dir, file_id) can both pass the
\* check, both fetch and both write the chunk files.
C26_CheckNotAtomic ==
  [][\A p \in Procs :
       (r_pc[p] = "write" /\ r_idx[p] < Plan(r_plan[p]).last.count
        /\ <<r_pc[p], r_idx[p]>> # <<r_pc'[p], r_idx'[p]>>) =>
         /\ r_pc'[p] = "write"
         /\ r_idx'[p] = r_idx[p] + 1
         /\ r_disk'[PartName(RaceDir, RaceFile, r_idx[p])] =
              Plan(r_plan[p]).fs[PartName(RaceDir, RaceFile, r_idx[p])]]_vars

\* both calls passed the check, fetched, wrote part0 and returned success
C26_Witness ==
  \A p \in Procs :
    /\ r_pc[p] = "done"
    /\ r_plan[p].fail = "none"
    /\ r_idx[p] >= 1
    /\ r_ret[p].ok

----------------------------------------------------------------------------
(***************************************************************************)
(* Concurrent merges of one content hash                                   *)
(***************************************************************************)
\* C27: however two merge_chunks requests of one content hash interleave,
\* the table holds at most one record of the hash, and each request that
\* has answered either registered the payload or returned the record of the
\* one that did, never an error.
C27_DedupAnyInterleaving ==
  /\ \A i, j \in 1..Len(q_records) :
       q_records[i].md5 = q_records[j].md5 => i = j
  /\ \A p \in Requests :
       q_pc[p] = "done" =>
         /\ q_resp[p].success
         /\ q_resp[p].file_id = FirstWithMd5(q_records, q_md5[p])

----------------------------------------------------------------------------
(***************************************************************************)
(* Publication of an HLS conversion                                        *)
(***************************************************************************)
\* the conversion run a record's hls_addr names
RunOf(rec) == rec.hls_addr[Len(rec.hls_addr)][2]

Published(id) == id \in 1..Len(records) /\ records[id].hls_addr # NoAddr

\* C28: a record carries an hls_addr only when the conversion is complete:
\* the plaintext playlist of the run is gone, hls_addr names the encrypted
\* playlist, which is on disk, and every segment of the run is stored
\* encrypted.  No state has a record with an hls_addr next to the plaintext
\* playlist.
C28_PublishOrdering ==
  /\ [](\A id \in 1..Len(records) :
          Published(id) =>
            LET rec == records[id]
                storage == get_file_storage_dir(rec)
            IN /\ ~Exists(mdisk, HlsName(storage, "m3u8", RunOf(rec), 0))
               /\ rec.hls_addr = HlsName(storage, "m3u8.enc", RunOf(rec), 0)
               /\ Exists(mdisk, rec.hls_addr))
  /\ [][\A id \in 1..Len(records) :
          (~Published(id) /\ Published(id)') =>
            LET rec == records'[id]
                storage == get_file_storage_dir(rec)
                segs == SegmentsOf(JoinExisting(mdisk, storage, get_file_chunks(rec)))
            IN /\ m_env'.ffmpeg = "ok"
               /\ \A i \in 1..Len(segs) :
                    /\ Exists(mdisk', HlsName(storage, "ts", RunOf(rec), i))
                    /\ mdisk'[HlsName(storage, "ts", RunOf(rec), i)] = XorKey(segs[i], 0)]_vars

\* a conversion has published a record with at least one segment
C28_Witness ==
  \E id \in 1..Len(records) :
    /\ Published(id)
    /\ m_last.op = "hls" /\ m_last.success /\ m_last.message = "converted"
    /\ Exists(mdisk, HlsName(get_file_storage_dir(records[id]), "ts", RunOf(records[id]), 1))

----------------------------------------------------------------------------
(***************************************************************************)
(* Deletion of the HLS artifacts                                           *)
(***************************************************************************)
\* C29: after file_delete_api has returned success for a record with an
\* hls_addr, neither the encrypted playlist nor any segment file of its
\* conversion is left on disk.
C29_HlsArtifactsDeleted ==
  [][(DeleteDone /\ Published(m_last'.file_id)) =>
       LET rec == records[m_last'.file_id]
           storage == get_file_storage_dir(rec)
       IN /\ ~Exists(mdisk', rec.hls_addr)
          /\ \A name \in DOMAIN mdisk' :
               Len(name) = Len(storage) + 2 =>
                 name # HlsName(storage, "ts", RunOf(rec), name[Len(name)][3])]_vars

----------------------------------------------------------------------------
(***************************************************************************)
(* Deduplication against the payload on disk                               *)
(***************************************************************************)
\* C30: whenever merge_chunks or check_file_exists answers exists=true for
\* a content hash, the record it names has chunk files and each of them is
\* on disk, so that file_content_api can stream the payload.
C30_ExistsMeansRetrievable ==
  [][m_last'.exists =>
       LET rec == records'[m_last'.file_id]
       IN /\ get_file_chunks(rec) # <<>>
          /\ \A i \in 1..Len(get_file_chunks(rec)) :
               Exists(mdisk', Append(get_file_storage_dir(rec), get_file_chunks(rec)[i]))
          /\ file_content_api(mdisk', records', m_last'.file_id).resp.success]_vars

----------------------------------------------------------------------------
(***************************************************************************)
(* Upload and merge on different days                                      *)
(***************************************************************************)
\* the chunk was stored by upload_chunk for the hash, on whatever day
Stored(fs, md5, uuid) ==
  \E day \in Days \cup {Tomorrow} : Exists(fs, StoragePath(day, md5, uuid))

\* C31: merge_chunks reports a chunk as missing only when some chunk it
\* was asked to merge was never stored for the hash; chunks stored on an
\* earlier day are found.
C31_StoredChunksFound ==
  [][(m_last'.op = "merge" /\ m_last'.message = "chunk_missing") =>
       \E i \in 1..Len(m_req'.chunks) :
         ~Stored(mdisk, m_req'.file_md5, m_req'.chunks[i].chunk_uuid)]_vars

----------------------------------------------------------------------------
(***************************************************************************)
(* The merged file                                                         *)
(***************************************************************************)
\* C32: whatever way merge_chunks returns, the merged file of the request
\* (storage_dir/file_name) is not on disk afterwards.
C32_NoMergedArtifact ==
  [][(m_last'.op = "merge" /\ m_last'.message # "missing_params") =>
       ~Exists(mdisk', StoragePath(today, m_req'.file_md5, m_req'.file_name))]_vars

----------------------------------------------------------------------------
(***************************************************************************)
(* Accounting and retry cap of the page fetchers                           *)
(***************************************************************************)
\* C33: every page is counted exactly once, as a success or as a failure,
\* whatever its attempts met; when a batch with valid arguments returns,
\* total = end_page - start_page + 1 and success + failed = total.
C33_BatchAccounting ==
  /\ fpc = "paged" =>
       /\ page_failed + (IF page_success THEN 1 ELSE 0) = 1
       /\ success_pages + failed_pages = page_num - start_page + 1
  /\ (fpc = "done" /\ ValidArgs) =>
       /\ fresult.total = end_page - start_page + 1
       /\ fresult.success + fresult.failed = fresult.total

\* a batch of two pages returned: one page succeeded, the other did not,
\* and its last attempt met a 5xx after earlier attempts had been retried
C33_Witness ==
  /\ fpc = "done"
  /\ ValidArgs
  /\ end_page = start_page + 1
  /\ fresult.success = 1
  /\ fresult.failed = 1
  /\ Len(hist) >= 2
  /\ hist[Len(hist)].status = 500

\* C34: a page is requested at most MAX_RETRIES times, its retry counter
\* starts at 0 whatever the pages before it met, and the attempt that
\* exhausts the counter is not followed by a backoff sleep.
C34_RetryCap ==
  /\ Len(hist) <= MAX_RETRIES
  /\ retry_count <= Len(hist)
  /\ (fpc = "loop" /\ hist = <<>>) => retry_count = 0
  /\ Len(sleeps) <= MAX_RETRIES - 1
  /\ retry_count >= MAX_RETRIES =>
       /\ Len(hist) = MAX_RETRIES
       /\ Len(sleeps) = MAX_RETRIES - 1
       /\ fpc # "loop"

\* the second page of a batch used up its retries after the first page had
\* used up its own
C34_Witness ==
  /\ page_num > start_page
  /\ start_page \in exhausted
  /\ page_num \in exhausted
  /\ Len(hist) = MAX_RETRIES
  /\ Len(sleeps) = MAX_RETRIES - 1

\* C39: an attempt whose save_data raised is the last attempt of its page:
\* the page is counted as failed and is not requested again.
C39_SaveFailureNotRetried ==
  \A i \in 1..Len(hist) :
    RaisedBy(site, hist[i]) = "save" =>
      /\ i = Len(hist)
      /\ fpc # "loop"
      /\ Len(sleeps) = i - 1

----------------------------------------------------------------------------
(***************************************************************************)
(* Shape of a stored chunk set                                             *)
(***************************************************************************)
\* the last call downloaded a payload and returned success
Downloaded == dl_last # NoDownload /\ dl_last.requested /\ dl_last.ok

\* C35: after a download that succeeded with target chunk size c and
\* returned n, the chunk files of the set are exactly part0..part(n-1),
\* each but the last holds c bytes, the last holds between 1 and c bytes,
\* and none is empty.
C35_ChunkShape ==
  Downloaded =>
    LET n == dl_last.count
        c == dl_last.chunk_size
        part(i) == PartName(dl_last.dir, dl_last.fid, i)
    IN /\ ChunkFilesOf(disk, dl_last.dir, dl_last.fid) = {part(i) : i \in 0..(n - 1)}
       /\ \A i \in 0..(n - 2) : Len(disk[part(i)]) = c
       /\ \A i \in 0..(n - 1) : Len(disk[part(i)]) >= 1
       /\ n >= 1 => Len(disk[part(n - 1)]) <= c

\* a payload above the threshold was stored as a full chunk followed by a
\* shorter last chunk
C35_Witness ==
  /\ Downloaded
  /\ dl_last.policy = "fixed"
  /\ dl_last.count >= 2
  /\ Len(disk[PartName(dl_last.dir, dl_last.fid, 0)]) = dl_last.chunk_size
  /\ Len(disk[PartName(dl_last.dir, dl_last.fid, dl_last.count - 1)]) < dl_last.chunk_size

----------------------------------------------------------------------------
(***************************************************************************)
(* Encryption of the HLS segments                                          *)
(***************************************************************************)
\* a step of convert_hls_api that returned success
Converted == m_last'.op = "hls" /\ m_last'.message = "converted"

\* C36: when convert_hls_api returns success, every segment the playlist
\* names holds the XOR encryption, with the keystream from position 0, of
\* the bytes the transcoder wrote for it: it was encrypted once, so one
\* more XOR from position 0 gives the transcoder's bytes back.
C36_SegmentsEncryptedOnce ==
  [][Converted =>
       LET rec == records'[m_last'.file_id]
           storage == get_file_storage_dir(rec)
           segs == SegmentsOf(JoinExisting(mdisk, storage, get_file_chunks(rec)))
       IN \A i \in 1..Len(segs) :
            LET ts == HlsName(storage, "ts", RunOf(rec), i)
            IN /\ Exists(mdisk', ts)
               /\ mdisk'[ts] = XorKey(segs[i], 0)
               /\ mdisk'[ts] # segs[i]
               /\ XorKey(mdisk'[ts], 0) = segs[i]]_vars

\* a conversion of a source of two segments returned success
C36_Witness ==
  /\ m_last.op = "hls"
  /\ m_last.message = "converted"
  /\ \A i \in {1, 2} :
       Exists(mdisk, HlsName(get_file_storage_dir(records[m_last.file_id]), "ts",
                             RunOf(records[m_last.file_id]), i))

----------------------------------------------------------------------------
(***************************************************************************)
(* The records merge_chunks creates                                        *)
(***************************************************************************)
\* the bytes of the chunk files a record lists, in the order it lists them
RECURSIVE RecordBytes(_, _, _)
RecordBytes(fs, rec, i) ==
  IF i > Len(rec.chunks) THEN <<>>
  ELSE fs[Append(get_file_storage_dir(rec), rec.chunks[i])] \o RecordBytes(fs, rec, i + 1)

\* C37: a step never creates more than one record, and the record a merge
\* creates lists the declared chunks in ascending declared index, each of
\* them on disk at merge time, and carries as md5 the declared hash, which
\* is the MD5 of those chunk files joined in the listed order.
C37_RecordVerified ==
  [][records' # records =>
       (Len(records') = Len(records) + 1
        /\ SubSeq(records', 1, Len(records)) = records
        /\ m_last'.op = "merge"
        /\ LET rec == records'[Len(records')]
           IN /\ rec.chunks = [i \in 1..Len(m_req'.chunks) |->
                                 m_req'.chunks[Ascending(m_req')[i]].chunk_uuid]
              /\ \A i \in 1..Len(rec.chunks) :
                   Exists(mdisk, Append(get_file_storage_dir(rec), rec.chunks[i]))
              /\ rec.md5 = m_req'.file_md5
              /\ rec.md5 = MD5(RecordBytes(mdisk, rec, 1)))]_vars

\* a record was created for a request that lists its two chunks in
\* ascending index
C37_Witness ==
  /\ m_last.op = "merge"
  /\ m_last.message = "uploaded"
  /\ Len(records) = 1
  /\ Len(m_req.chunks) = 2
  /\ m_req.chunks[1].chunk_index < m_req.chunks[2].chunk_index
  /\ records[1].md5 = MD5(RecordBytes(mdisk, records[1], 1))

----------------------------------------------------------------------------
(***************************************************************************)
(* The variants of an image                                                *)
(***************************************************************************)
\* the call went through the task loop and answered
Processed == i_pc = "done" /\ i_resp \in {"completed", "all_failed"}

\* C38: a call of download_image that finds the record not yet marked
\* handles each of the three variants, whatever became of the others, and
\* counts each once; it marks the record exactly when a variant succeeded;
\* a call that finds the record marked sends no request and handles no
\* variant.
C38_VariantIsolation ==
  /\ Processed =>
       /\ ~i_marked
       /\ Len(i_outcomes) = Len(download_tasks)
       /\ i_success + i_failed = Len(download_tasks)
       /\ i_success = Cardinality({k \in 1..Len(i_outcomes) : i_outcomes[k] = "ok"})
       /\ (i_status = DownloadedStatus) <=> (i_success > 0)
  /\ (i_pc # "idle" /\ i_marked) =>
       /\ i_pc = "done"
       /\ i_resp = "already"
       /\ i_requests = 0
       /\ i_outcomes = <<>>
  /\ (i_pc \in {"task", "finish"}) => i_status = NotDownloaded

\* the first variant failed, the second raised, the third was stored, and
\* the record was marked
C38_Witness ==
  /\ Processed
  /\ i_outcomes = <<"failed", "raised", "ok">>
  /\ i_status = DownloadedStatus
  /\ i_requests = 2

----------------------------------------------------------------------------
(***************************************************************************)
(* Chunk sets with gaps                                                    *)
(***************************************************************************)
\* the smallest index whose chunk file is missing
FirstMissing(fs, d, f) ==
  CHOOSE n \in 0..(Cardinality(DOMAIN fs) + 1) :
    /\ ~Exists(fs, PartName(d, f, n))
    /\ \A i \in 0..(n - 1) : Exists(fs, PartName(d, f, i))

\* the chunk files part(i)..part(n-1), joined in ascending index
RECURSIVE PrefixBytes(_, _, _, _, _)
PrefixBytes(fs, d, f, i, n) ==
  IF i >= n THEN <<>>
  ELSE fs[PartName(d, f, i)] \o PrefixBytes(fs, d, f, i + 1, n)

\* C40: with N the smallest index whose chunk file is missing,
\* count_existing_chunks is N and assemble_chunks returns the bytes of
\* part0..part(N-1) joined in ascending numeric index (ChunkError when
\* N = 0); chunk files after the gap are ignored.
C40_ContiguousPrefix ==
  /\ (as_last # NoAssemble /\ as_last.fid # "") =>
       LET N == FirstMissing(disk, as_last.dir, as_last.fid)
       IN /\ as_last.ok <=> N > 0
          /\ as_last.ok => as_last.data = PrefixBytes(disk, as_last.dir, as_last.fid, 0, N)
  /\ (dl_last # NoDownload /\ dl_last.ok /\ ~dl_last.requested) =>
       dl_last.count = FirstMissing(disk, dl_last.dir, dl_last.fid)

\* a set of more than ten chunks with a further file after a gap was
\* assembled
C40_Witness ==
  /\ as_last.ok
  /\ Len(as_last.data) = MaxParts
  /\ Exists(disk, PartName(as_last.dir, as_last.fid, MaxParts + 1))
  /\ ~Exists(disk, PartName(as_last.dir, as_last.fid, MaxParts))

====
